---- MODULE Spec2Model ----
(***************************************************************************)
(* NeoSetup operator validator (neosetup/scripts/validate_operator.py).    *)
(*                                                                         *)
(* The model follows OperatorValidator and main(): a validator object that *)
(* holds the loaded schema and the list self.results, the operator files   *)
(* under operators/<name>/vars.yml, and the command line driver.           *)
(*                                                                         *)
(* Python values are records tagged with their runtime shape.  A string is *)
(* its sequence of characters, a list its sequence of items, a dict its    *)
(* sequence of <<key, value>> pairs in insertion order.                    *)
(***************************************************************************)
EXTENDS Integers, Sequences, FiniteSets, TLC

VARIABLES
    schema,      \* self.schema, the loaded schema
    files,       \* the operator files on disk
    results,     \* self.results
    earlier,     \* the call before the last: its target, how it ended, the
                 \* diagnostics it returned and what that list object holds now
    outcome,     \* how the last validate_operator call ended
    target,      \* the operator the last validate_operator call was about
    opened,      \* the operator files that call opened, in order
    printed,     \* the lines the last print_results call printed
    pc,          \* where the process is
    pending,     \* --all: the operator directories not iterated yet
    all_passed,  \* --all: main's all_passed
    validated,   \* the operators validate_operator was called on
    errorSeen,   \* some validate_operator call produced an Error
    exitCode,    \* the exit status once pc = "exited"
    dirs,        \* the directories operators/<name>, by name
    readmes,     \* the names whose README.md create_operator wrote
    generated,   \* the last create_operator call: its arguments, the
                 \* exception it raised and the configuration it wrote
    stats,       \* matrix_progress: self.stats
    roles,       \* matrix_progress: self.roles
    play,        \* the hosts of the play, those still in it, and those that
                 \* reported a result for the task that runs
    breakdown    \* the lines _print_role_breakdown displayed

vars == <<schema, files, results, earlier, outcome, target, opened, printed,
          pc, pending, all_passed, validated, errorSeen, exitCode,
          dirs, readmes, generated, stats, roles, play, breakdown>>

\* what create_operator.py writes
generator_vars == <<dirs, readmes, generated>>

\* the state of the matrix_progress callback and of the play it watches
progress_vars == <<stats, roles, play, breakdown>>

validator_vars == <<schema, files, results, earlier, outcome, target, opened,
                    printed, pc, pending, all_passed, validated, errorSeen,
                    exitCode>>

\* two of NEOSETUP_ROLES, and the role of a task outside every role
Roles == {"common", "shell"}
NoRole == "None"

\* TaskStats(), RoleTracking(), and no play running
NoStats == [total |-> 0, completed |-> 0, failed |-> 0, skipped |-> 0, changed |-> 0]
NoRoles == [current |-> NoRole, tasks |-> [r \in Roles |-> 0],
            completed |-> [r \in Roles |-> 0], order |-> <<>>]
NoPlay == [hosts |-> {}, alive |-> {}, reported |-> {}, ended |-> FALSE]

----------------------------------------------------------------------------
(* Python values.                                                          *)

Str(s) == [shape |-> "str", s |-> s]
Int_(n) == [shape |-> "int", n |-> n]
Bool(b) == [shape |-> "bool", n |-> IF b THEN 1 ELSE 0]
Null == [shape |-> "null"]
List(items) == [shape |-> "list", items |-> items]
Dict(pairs) == [shape |-> "dict", pairs |-> pairs]

\* type(value).__name__
TypeName(v) ==
    CASE v.shape = "str" -> "str"
      [] v.shape = "int" -> "int"
      [] v.shape = "bool" -> "bool"
      [] v.shape = "null" -> "NoneType"
      [] v.shape = "list" -> "list"
      [] v.shape = "dict" -> "dict"

\* a == b
PyEq(a, b) ==
    IF a.shape = b.shape THEN a = b
    ELSE /\ a.shape \in {"int", "bool"}
         /\ b.shape \in {"int", "bool"}
         /\ a.n = b.n

\* values len() accepts; on the others it raises TypeError
HasLen(v) == v.shape \in {"str", "list", "dict"}

PyLen(v) ==
    CASE v.shape = "str" -> Len(v.s)
      [] v.shape = "list" -> Len(v.items)
      [] v.shape = "dict" -> Len(v.pairs)

\* values the operator "in" accepts on the right; on the others it raises
\* TypeError
IsContainer(v) == v.shape \in {"str", "list", "dict"}

\* key in v : a key of a dict, an item of a list.  The strings of this
\* model are shorter than any key name, so no key is a substring of one.
Has(v, key) ==
    CASE v.shape = "dict" -> \E i \in 1..Len(v.pairs) : v.pairs[i][1] = key
      [] v.shape = "list" -> \E i \in 1..Len(v.items) : v.items[i] = key
      [] OTHER -> FALSE

\* v[key] of a dict
Get(v, key) ==
    v.pairs[CHOOSE i \in 1..Len(v.pairs) : v.pairs[i][1] = key][2]

\* v.get(key), None when the key is absent
GetOrNone(v, key) == IF Has(v, key) THEN Get(v, key) ELSE Null

----------------------------------------------------------------------------
(* Diagnostics: ValidationResult(level, field, message, suggestion).       *)
(* field is the dotted path as a tuple of its parts; message and           *)
(* suggestion are the f-string's fixed text with the names of the          *)
(* expressions interpolated into it; suggestion None is NoSuggestion.      *)

ERROR == "error"
WARNING == "warning"
INFO == "info"

NoSuggestion == [text |-> "None", args |-> <<>>]

ValidationResult(level, field, message, suggestion) ==
    [level |-> level, field |-> field, message |-> message,
     suggestion |-> suggestion]

Text(text, args) == [text |-> text, args |-> args]

----------------------------------------------------------------------------
(* Regular expressions.  A pattern of the schema is modelled for the       *)
(* quantifier-free fragment: a sequence of character classes, each         *)
(* matching one character, optionally followed by "$".                     *)

Pattern(atoms, dollar) == [atoms |-> atoms, dollar |-> dollar]

\* re.match(pattern, s): the pattern matches at the start of s; "$"
\* matches at the end of s and before a newline that ends s.
ReMatch(p, s) ==
    /\ Len(s) >= Len(p.atoms)
    /\ \A i \in 1..Len(p.atoms) : s[i] \in p.atoms[i]
    /\ p.dollar =>
          \/ Len(s) = Len(p.atoms)
          \/ Len(s) = Len(p.atoms) + 1 /\ s[Len(s)] = "\n"

----------------------------------------------------------------------------
(* OperatorValidator._validate_field.  rules is the rule's mapping: a      *)
(* function whose domain is the set of keys the rule has.                  *)

\* rules.get("type")
ExpectedType(rules) == IF "type" \in DOMAIN rules THEN rules.type ELSE "None"

\* the membership test, were it to look at the first allowed value only
NotInEnumFirstOnly(value, enum) == enum = <<>> \/ ~PyEq(value, enum[1])

\* value not in rules["enum"]
NotInEnum(value, enum) == ~ \E i \in 1..Len(enum) : PyEq(value, enum[i])

TypeStringDiag(field_name) ==
    ValidationResult(ERROR, field_name,
        Text("Field must be a string, got", <<"field_name", "type(value).__name__">>),
        NoSuggestion)

TypeArrayDiag(field_name) ==
    ValidationResult(ERROR, field_name,
        Text("Field must be an array, got", <<"field_name", "type(value).__name__">>),
        NoSuggestion)

PatternDiag(field_name) ==
    ValidationResult(ERROR, field_name,
        Text("Field value doesn't match required pattern", <<"field_name", "value">>),
        Text("Pattern:", <<"rules['pattern']">>))

\* the length diagnostic, were it given the severity of the other checks
MaxLengthDiagAsError(field_name) ==
    ValidationResult(ERROR, field_name,
        Text("Field exceeds maximum length of", <<"field_name", "rules['max_length']">>),
        NoSuggestion)

MaxLengthDiag(field_name) ==
    ValidationResult(WARNING, field_name,
        Text("Field exceeds maximum length of", <<"field_name", "rules['max_length']">>),
        NoSuggestion)

\* the enum Error, were it not to list the allowed values
EnumDiagBare(field_name) ==
    ValidationResult(ERROR, field_name,
        Text("Field value not in allowed values:", <<"field_name", "value">>),
        NoSuggestion)

EnumDiag(field_name) ==
    ValidationResult(ERROR, field_name,
        Text("Field value not in allowed values:", <<"field_name", "value", "rules['enum']">>),
        NoSuggestion)

\* the max_items Warning, were it to report the limit only, as the
\* max_length Warning does
MaxItemsDiagLimitOnly(field_name) ==
    ValidationResult(WARNING, field_name,
        Text("Field has items, recommended maximum:",
             <<"field_name", "rules['max_items']">>),
        NoSuggestion)

MaxItemsDiag(field_name) ==
    ValidationResult(WARNING, field_name,
        Text("Field has items, recommended maximum:",
             <<"field_name", "len(value)", "rules['max_items']">>),
        NoSuggestion)

\* The diagnostics _validate_field appends for one field, in order.
ValidateField(field_name, value, rules) ==
    IF ExpectedType(rules) = "string" /\ value.shape # "str"
    THEN <<TypeStringDiag(field_name)>>
    ELSE IF ExpectedType(rules) = "array" /\ value.shape # "list"
    THEN <<TypeArrayDiag(field_name)>>
    ELSE
        (IF /\ value.shape = "str"
            /\ "pattern" \in DOMAIN rules
            /\ ~ReMatch(rules.pattern, value.s)
         THEN <<PatternDiag(field_name)>> ELSE <<>>)
        \o
        (IF /\ value.shape = "str"
            /\ "max_length" \in DOMAIN rules
            /\ Len(value.s) > rules.max_length
         THEN <<MaxLengthDiag(field_name)>> ELSE <<>>)
        \o
        (IF "enum" \in DOMAIN rules /\ NotInEnum(value, rules.enum)
         THEN <<EnumDiag(field_name)>> ELSE <<>>)
        \o
        (IF /\ value.shape = "list"
            /\ "max_items" \in DOMAIN rules
            /\ Len(value.items) > rules.max_items
         THEN <<MaxItemsDiag(field_name)>> ELSE <<>>)

----------------------------------------------------------------------------
(* A run of validation code either completes, having appended res to       *)
(* self.results, or raises an exception exc after having appended res;     *)
(* opened lists the operator files it called open() on.                    *)

NoExc == "None"

Ok(res) == [res |-> res, exc |-> NoExc, opened |-> <<>>]

Raise(exc) == [res |-> <<>>, exc |-> exc, opened |-> <<>>]

\* open(<the file of name>), then run
Opening(name, run) == [run EXCEPT !.opened = <<name>> \o @]

\* first, and unless it raised, second
Then(first, second) ==
    IF first.exc # NoExc THEN first
    ELSE [res |-> first.res \o second.res, exc |-> second.exc,
          opened |-> first.opened \o second.opened]

----------------------------------------------------------------------------
(* OperatorValidator._validate_metadata.  A group of the schema is         *)
(* [required_fields, fields, field_types]: fields is the order in which    *)
(* field_types is iterated, field_types maps a field to its rules.         *)

MissingDiag(field) ==
    ValidationResult(ERROR, <<field>>,
        Text("Required field is missing", <<"field">>),
        Text("Add '<field>: <value>' to your operator configuration", <<"field">>))

\* the loop over required_fields, were it to stop at the first missing field
RECURSIVE CheckRequiredFirstOnly(_, _, _)
CheckRequiredFirstOnly(operator, required_fields, i) ==
    IF i > Len(required_fields) THEN Ok(<<>>)
    ELSE IF ~IsContainer(operator) THEN Raise("TypeError")
    ELSE IF Has(operator, required_fields[i])
    THEN CheckRequiredFirstOnly(operator, required_fields, i + 1)
    ELSE Ok(<<MissingDiag(required_fields[i])>>)

\* for field in schema["required_fields"]: if field not in operator
RECURSIVE CheckRequired(_, _, _)
CheckRequired(operator, required_fields, i) ==
    IF i > Len(required_fields) THEN Ok(<<>>)
    ELSE IF ~IsContainer(operator) THEN Raise("TypeError")
    ELSE Then(Ok(IF Has(operator, required_fields[i]) THEN <<>>
                 ELSE <<MissingDiag(required_fields[i])>>),
              CheckRequired(operator, required_fields, i + 1))

\* for field, rules in schema["field_types"].items(): if field in operator
RECURSIVE CheckMetadataFields(_, _, _)
CheckMetadataFields(operator, group, i) ==
    IF i > Len(group.fields) THEN Ok(<<>>)
    ELSE IF ~IsContainer(operator) THEN Raise("TypeError")
    ELSE IF ~Has(operator, group.fields[i])
    THEN CheckMetadataFields(operator, group, i + 1)
    ELSE IF operator.shape # "dict" THEN Raise("TypeError")
    ELSE Then(Ok(ValidateField(<<group.fields[i]>>,
                               Get(operator, group.fields[i]),
                               group.field_types[group.fields[i]])),
              CheckMetadataFields(operator, group, i + 1))

ValidateMetadata(sch, operator) ==
    Then(CheckRequired(operator, sch.operator_metadata.required_fields, 1),
         CheckMetadataFields(operator, sch.operator_metadata, 1))

----------------------------------------------------------------------------
(* The section validators.                                                 *)

\* the loop over a section, were a field the schema lacks to be an Error
RECURSIVE SectionFieldsStrict(_, _, _, _)
SectionFieldsStrict(section_name, section, group, i) ==
    IF i > Len(section.pairs) THEN <<>>
    ELSE (IF section.pairs[i][1] \in DOMAIN group.field_types
          THEN ValidateField(<<section_name, section.pairs[i][1]>>,
                             section.pairs[i][2],
                             group.field_types[section.pairs[i][1]])
          ELSE <<ValidationResult(ERROR, <<section_name, section.pairs[i][1]>>,
                                  Text("Unknown field", <<"field">>), NoSuggestion)>>)
         \o SectionFieldsStrict(section_name, section, group, i + 1)

\* for field, value in section.items():
\*     if field in schema["field_types"]: self._validate_field(...)
RECURSIVE SectionFields(_, _, _, _)
SectionFields(section_name, section, group, i) ==
    IF i > Len(section.pairs) THEN <<>>
    ELSE (IF section.pairs[i][1] \in DOMAIN group.field_types
          THEN ValidateField(<<section_name, section.pairs[i][1]>>,
                             section.pairs[i][2],
                             group.field_types[section.pairs[i][1]])
          ELSE <<>>)
         \o SectionFields(section_name, section, group, i + 1)

PluginLimit == 15

PluginsDiag ==
    ValidationResult(WARNING, <<"shell_config", "oh_my_zsh_plugins">>,
        Text("Large number of plugins may slow shell startup", <<"len(plugins)">>),
        Text("Consider removing unused plugins", <<>>))

\* the custom validation of _validate_shell_config
CheckPlugins(shell_config) ==
    IF ~Has(shell_config, "oh_my_zsh_plugins") THEN Ok(<<>>)
    ELSE IF ~HasLen(Get(shell_config, "oh_my_zsh_plugins")) THEN Raise("TypeError")
    ELSE Ok(IF PyLen(Get(shell_config, "oh_my_zsh_plugins")) > PluginLimit
            THEN <<PluginsDiag>> ELSE <<>>)

ValidateShellConfig(sch, shell_config) ==
    IF shell_config.shape # "dict" THEN Raise("AttributeError")
    ELSE Then(Ok(SectionFields("shell_config", shell_config, sch.shell_config, 1)),
              CheckPlugins(shell_config))

\* the nested loop, were it to name a setting as a field of the section
RECURSIVE TmuxSettingsAsFields(_, _, _)
TmuxSettingsAsFields(settings, properties, i) ==
    IF i > Len(settings.pairs) THEN <<>>
    ELSE (IF /\ settings.pairs[i][1] \in DOMAIN properties
             /\ DOMAIN properties[settings.pairs[i][1]] # {}
          THEN ValidateField(<<"tmux_config", settings.pairs[i][1]>>,
                             settings.pairs[i][2],
                             properties[settings.pairs[i][1]])
          ELSE <<>>)
         \o TmuxSettingsAsFields(settings, properties, i + 1)

\* the nested loop over tmux_config.settings
RECURSIVE TmuxSettings(_, _, _)
TmuxSettings(settings, properties, i) ==
    IF i > Len(settings.pairs) THEN <<>>
    ELSE (IF /\ settings.pairs[i][1] \in DOMAIN properties
             /\ DOMAIN properties[settings.pairs[i][1]] # {}
          THEN ValidateField(<<"tmux_config", "settings", settings.pairs[i][1]>>,
                             settings.pairs[i][2],
                             properties[settings.pairs[i][1]])
          ELSE <<>>)
         \o TmuxSettings(settings, properties, i + 1)

RECURSIVE TmuxFields(_, _, _)
TmuxFields(tmux_config, group, i) ==
    IF i > Len(tmux_config.pairs) THEN <<>>
    ELSE (IF tmux_config.pairs[i][1] \in DOMAIN group.field_types
          THEN IF /\ tmux_config.pairs[i][1] = "settings"
                  /\ tmux_config.pairs[i][2].shape = "dict"
               THEN TmuxSettings(tmux_config.pairs[i][2],
                                 group.field_types["settings"].properties, 1)
               ELSE ValidateField(<<"tmux_config", tmux_config.pairs[i][1]>>,
                                  tmux_config.pairs[i][2],
                                  group.field_types[tmux_config.pairs[i][1]])
          ELSE <<>>)
         \o TmuxFields(tmux_config, group, i + 1)

ValidateTmuxConfig(sch, tmux_config) ==
    IF tmux_config.shape # "dict" THEN Raise("AttributeError")
    ELSE Ok(TmuxFields(tmux_config, sch.tmux_config, 1))

ValidateToolsConfig(sch, tools_config) ==
    IF tools_config.shape # "dict" THEN Raise("AttributeError")
    ELSE Ok(SectionFields("tools_config", tools_config, sch.tools_config, 1))

ValidateDockerConfig(sch, docker_config) ==
    IF docker_config.shape # "dict" THEN Raise("AttributeError")
    ELSE Ok(SectionFields("docker_config", docker_config, sch.docker_config, 1))

\* if "<section>" in operator: self._validate_<section>(operator["<section>"])
\* operator is a container here: _validate_metadata ran before
Section(operator, section_name, run) ==
    IF ~IsContainer(operator) THEN Raise("TypeError")
    ELSE IF ~Has(operator, section_name) THEN Ok(<<>>)
    ELSE IF operator.shape # "dict" THEN Raise("TypeError")
    ELSE run

----------------------------------------------------------------------------
(* The operator files.  files maps an operator directory name to the state *)
(* of operators/<name>/vars.yml:                                           *)
(*   missing      no such file                                             *)
(*   oserror      the file exists and open() raises OSError                *)
(*   yamlerror    yaml.safe_load raises yaml.YAMLError                     *)
(*   undecodable  the bytes are not UTF-8: reading the text stream raises  *)
(*                UnicodeDecodeError, a ValueError                         *)
(*   doc          the file parses to the value doc                         *)

Names == {"a", "b", "c"}

Missing == [kind |-> "missing", doc |-> Null]
OsError == [kind |-> "oserror", doc |-> Null]
YamlError == [kind |-> "yamlerror", doc |-> Null]
Undecodable == [kind |-> "undecodable", doc |-> Null]
Doc(d) == [kind |-> "doc", doc |-> d]

\* the file at operators/<parent_name>/vars.yml, parent_name a str
FileAt(fs, name) ==
    IF Len(name) = 1 /\ name[1] \in Names THEN fs[name[1]] ELSE Missing

\* Path.exists()
Exists(file) == file.kind # "missing"

----------------------------------------------------------------------------
(* OperatorValidator._validate_inheritance.                                *)

ParentNotFoundDiag ==
    ValidationResult(ERROR, <<"extends">>,
        Text("Parent operator not found at", <<"parent_name", "parent_path">>),
        Text("Create the parent operator or fix the 'extends' field", <<>>))

CircularDiag ==
    ValidationResult(ERROR, <<"extends">>,
        Text("Circular dependency detected with parent", <<"parent_name">>),
        NoSuggestion)

ParentUnreadableDiag ==
    ValidationResult(WARNING, <<"extends">>,
        Text("Could not validate parent operator:", <<"e">>),
        NoSuggestion)

\* the try block, were it to compare the parent's extends with the child's
\* extends instead of the child's operator_name
CheckCircularWrongKey(operator, parent_file) ==
    IF parent_file.kind \in {"missing", "oserror", "yamlerror"}
    THEN Ok(<<ParentUnreadableDiag>>)
    ELSE IF parent_file.kind = "undecodable" THEN Raise("UnicodeDecodeError")
    ELSE IF parent_file.doc.shape # "dict" THEN Raise("AttributeError")
    ELSE Ok(IF PyEq(GetOrNone(parent_file.doc, "extends"),
                    GetOrNone(operator, "extends"))
            THEN <<CircularDiag>> ELSE <<>>)

\* the try block, were it to report every parent that extends something
CheckCircularAnyExtends(operator, parent_file) ==
    IF parent_file.kind \in {"missing", "oserror", "yamlerror"}
    THEN Ok(<<ParentUnreadableDiag>>)
    ELSE IF parent_file.kind = "undecodable" THEN Raise("UnicodeDecodeError")
    ELSE IF parent_file.doc.shape # "dict" THEN Raise("AttributeError")
    ELSE Ok(IF Has(parent_file.doc, "extends") THEN <<CircularDiag>> ELSE <<>>)

\* the try block: open and load the parent, compare its extends
CheckCircular(operator, parent_file) ==
    IF parent_file.kind \in {"missing", "oserror", "yamlerror"}
    THEN Ok(<<ParentUnreadableDiag>>)
    ELSE IF parent_file.kind = "undecodable" THEN Raise("UnicodeDecodeError")
    ELSE IF parent_file.doc.shape # "dict" THEN Raise("AttributeError")
    ELSE Ok(IF PyEq(GetOrNone(parent_file.doc, "extends"),
                    GetOrNone(operator, "operator_name"))
            THEN <<CircularDiag>> ELSE <<>>)

\* _validate_inheritance, were the return after the missing-parent Error
\* left out
ValidateInheritanceNoReturn(fs, operator) ==
    IF ~IsContainer(operator) THEN Raise("TypeError")
    ELSE IF ~Has(operator, "extends") THEN Ok(<<>>)
    ELSE IF operator.shape # "dict" THEN Raise("TypeError")
    ELSE IF Get(operator, "extends").shape # "str" THEN Raise("TypeError")
    ELSE Then(Ok(IF ~Exists(FileAt(fs, Get(operator, "extends").s))
                 THEN <<ParentNotFoundDiag>> ELSE <<>>),
              Opening(IF Len(Get(operator, "extends").s) = 1
                      THEN Get(operator, "extends").s[1] ELSE "other",
                      CheckCircular(operator, FileAt(fs, Get(operator, "extends").s))))

ValidateInheritance(fs, operator) ==
    IF ~IsContainer(operator) THEN Raise("TypeError")
    ELSE IF ~Has(operator, "extends") THEN Ok(<<>>)
    ELSE IF operator.shape # "dict" THEN Raise("TypeError")
    ELSE IF Get(operator, "extends").shape # "str" THEN Raise("TypeError")
    ELSE IF ~Exists(FileAt(fs, Get(operator, "extends").s))
    THEN Ok(<<ParentNotFoundDiag>>)
    ELSE Opening(Get(operator, "extends").s[1],
                 CheckCircular(operator, FileAt(fs, Get(operator, "extends").s)))

----------------------------------------------------------------------------
(* OperatorValidator.validate_operator.                                    *)

FileDiag ==
    ValidationResult(ERROR, <<"file">>,
        Text("Failed to load operator file:", <<"e">>), NoSuggestion)

\* the validation, were the inheritance check to run before the sections
ValidateDocumentParentFirst(sch, fs, operator) ==
    Then(ValidateMetadata(sch, operator),
    Then(ValidateInheritance(fs, operator),
    Then(Section(operator, "shell_config",
                 ValidateShellConfig(sch, Get(operator, "shell_config"))),
    Then(Section(operator, "tmux_config",
                 ValidateTmuxConfig(sch, Get(operator, "tmux_config"))),
    Then(Section(operator, "tools_config",
                 ValidateToolsConfig(sch, Get(operator, "tools_config"))),
         Section(operator, "docker_config",
                 ValidateDockerConfig(sch, Get(operator, "docker_config"))))))))

\* the validation of a loaded document, lines 67-87
ValidateDocument(sch, fs, operator) ==
    Then(ValidateMetadata(sch, operator),
    Then(Section(operator, "shell_config",
                 ValidateShellConfig(sch, Get(operator, "shell_config"))),
    Then(Section(operator, "tmux_config",
                 ValidateTmuxConfig(sch, Get(operator, "tmux_config"))),
    Then(Section(operator, "tools_config",
                 ValidateToolsConfig(sch, Get(operator, "tools_config"))),
    Then(Section(operator, "docker_config",
                 ValidateDockerConfig(sch, Get(operator, "docker_config"))),
         ValidateInheritance(fs, operator))))))

\* validate_operator on the file of operator directory name: what
\* self.results holds when the call ends, the exception it raises and the
\* files it opens
ValidateOperatorRun(sch, fs, name) ==
    Opening(name,
        IF fs[name].kind \in {"missing", "oserror", "yamlerror"} THEN Ok(<<FileDiag>>)
        ELSE IF fs[name].kind = "undecodable" THEN Raise("UnicodeDecodeError")
        ELSE ValidateDocument(sch, fs, fs[name].doc))

----------------------------------------------------------------------------
(* OperatorValidator.print_results: the lines it prints.                   *)

NoDiag == ValidationResult("none", <<>>, Text("", <<>>), NoSuggestion)

Line(kind, level, count, d) ==
    [line |-> kind, level |-> level, count |-> count, d |-> d]

Level(res, level) == SelectSeq(res, LAMBDA r : r.level = level)

\* for result in group: the field and message, then the suggestion if any
RECURSIVE GroupLines(_, _, _)
GroupLines(group, with_suggestion, i) ==
    IF i > Len(group) THEN <<>>
    ELSE <<Line("item", group[i].level, 0, group[i])>>
         \o (IF with_suggestion /\ group[i].suggestion # NoSuggestion
             THEN <<Line("suggestion", group[i].level, 0, group[i])>> ELSE <<>>)
         \o GroupLines(group, with_suggestion, i + 1)

PrintedGroup(res, level, with_suggestion) ==
    IF Level(res, level) = <<>> THEN <<>>
    ELSE <<Line("header", level, Len(Level(res, level)), NoDiag)>>
         \o GroupLines(Level(res, level), with_suggestion, 1)

\* print_results, were it to print the warnings before the errors
PrintResultsLinesWarningsFirst(res, show_info) ==
    IF res = <<>> THEN <<Line("passed", "none", 0, NoDiag)>>
    ELSE PrintedGroup(res, WARNING, TRUE)
         \o PrintedGroup(res, ERROR, TRUE)
         \o (IF show_info THEN PrintedGroup(res, INFO, FALSE) ELSE <<>>)

PrintResultsLines(res, show_info) ==
    IF res = <<>> THEN <<Line("passed", "none", 0, NoDiag)>>
    ELSE PrintedGroup(res, ERROR, TRUE)
         \o PrintedGroup(res, WARNING, TRUE)
         \o (IF show_info THEN PrintedGroup(res, INFO, FALSE) ELSE <<>>)

\* if errors: sys.exit(1)
PrintResultsExits(res) == Level(res, ERROR) # <<>>

----------------------------------------------------------------------------
(* The schemas the validator is loaded with.  The schema file is data read *)
(* by _load_schema; the groups and fields below are those the validator    *)
(* and its tests name.                                                     *)

MaxRequired == 2
MaxLength == 2
MaxItems == 2

Rep(x, n) == [i \in 1..n |-> x]

\* the rule with the entries of r whose key is in keys
Restrict(r, keys) == [k \in keys |-> r[k]]

MetaPool == {"operator_name", "operator_version", "operator_description", "operator_author"}

StdRequired == <<"operator_name", "operator_version", "operator_description">>

\* lists of required fields: no field is listed twice
RequiredLists ==
    {StdRequired} \cup
    {s \in UNION {[1..n -> MetaPool] : n \in 0..MaxRequired} :
        \A i, j \in DOMAIN s : i # j => s[i] # s[j]}

NamePattern == Pattern(<<Names>>, TRUE)
VersionPattern == Pattern(<<{"1"}, {"."}, {"0"}>>, TRUE)
PrefixPattern == Pattern(<<{"C"}, {"-"}, {"a", "b"}>>, TRUE)

MetadataGroup(required) ==
    [required_fields |-> required,
     fields |-> <<"operator_name", "operator_version", "operator_description">>,
     field_types |->
        [operator_name |-> [type |-> "string", pattern |-> NamePattern],
         operator_version |-> [type |-> "string", pattern |-> VersionPattern],
         operator_description |-> [type |-> "string", max_length |-> MaxLength]]]

PluginsRule == [type |-> "array", max_items |-> MaxItems]

\* oh_my_zsh_plugins with no max_items, a small one, one above the limit
\* of the custom check
PluginsRules ==
    {[type |-> "array"], PluginsRule, [type |-> "array", max_items |-> PluginLimit + 1]}

ShellGroup(plugins_rule) ==
    [field_types |->
        [preferred_shell |-> [type |-> "string", enum |-> <<Str(<<"z">>), Str(<<"b">>)>>],
         oh_my_zsh_plugins |-> plugins_rule]]

TmuxGroup ==
    [field_types |->
        [theme |-> [type |-> "string", enum |-> <<Str(<<"a">>), Str(<<"b">>)>>],
         prefix |-> [type |-> "string", pattern |-> PrefixPattern],
         settings |-> [type |-> "object",
                       properties |-> [mouse |-> [type |-> "boolean"],
                                       base_index |-> [type |-> "integer", minimum |-> 0],
                                       status_position |->
                                           [type |-> "string",
                                            enum |-> <<Str(<<"a">>), Str(<<"b">>)>>],
                                       reserved |-> Restrict([type |-> "string"], {})]]]]

\* every rule over type, pattern, enum, max_length, max_items
FullRule(type) ==
    [type |-> type, pattern |-> Pattern(<<{"a"}>>, FALSE),
     enum |-> <<Str(<<"a">>), Int_(1), List(<<>>)>>,
     max_length |-> MaxLength, max_items |-> MaxItems]

RuleTypes == {"string", "array", "object", "boolean", "integer"}

Rules ==
    {Restrict(FullRule(type), keys) :
        type \in RuleTypes,
        keys \in SUBSET {"type", "pattern", "enum", "max_length", "max_items"}}

ProbeRule == [type |-> "string"]

ToolsGroup(probe_rule) == [field_types |-> [probe |-> probe_rule]]

DockerGroup ==
    [field_types |->
        [install_compose |-> [type |-> "boolean"],
         compose_version |-> [type |-> "string", enum |-> <<Str(<<"1">>), Str(<<"2">>)>>],
         networks |-> [type |-> "array", max_items |-> MaxItems]]]

Schema(required, plugins_rule, probe_rule) ==
    [operator_metadata |-> MetadataGroup(required),
     shell_config |-> ShellGroup(plugins_rule),
     tmux_config |-> TmuxGroup,
     tools_config |-> ToolsGroup(probe_rule),
     docker_config |-> DockerGroup]

StdSchema == Schema(StdRequired, PluginsRule, ProbeRule)

----------------------------------------------------------------------------
(* The operator documents the validator is run on.                         *)

Absent == [shape |-> "absent"]

\* the pair of a key unless its value is Absent
PairIf(key, v) == IF v = Absent THEN <<>> ELSE <<(<<key, v>>)>>

GoodName(name) == Str(<<name>>)
GoodVersion == Str(<<"1", ".", "0">>)
GoodDescription == Str(<<"a">>)

\* the required metadata, valid, of the operator in directory name
BaseMeta(name) ==
    <<(<<"operator_name", GoodName(name)>>),
      (<<"operator_version", GoodVersion>>),
      (<<"operator_description", GoodDescription>>)>>

\* values of every shape, short, at a limit and beyond it
Values ==
    {Str(<<>>), Str(<<"a">>), Str(<<"z">>), Str(<<"a", "\n">>),
     Str(Rep("a", MaxLength)), Str(Rep("a", MaxLength + 1)),
     Str(Rep("a", PluginLimit + 1)),
     Int_(1), Int_(-1), Bool(TRUE), Null,
     List(<<>>), List(Rep("a", MaxItems)), List(Rep("a", MaxItems + 1)),
     List(Rep("a", PluginLimit + 1)),
     Dict(<<>>)}

\* documents that are not a mapping
NonMappings ==
    {Null, Int_(1), Str(<<"a">>), List(<<>>), List(<<"operator_name">>),
     List(<<"shell_config">>), List(<<"extends">>)}

SectionNames == {"shell_config", "tmux_config", "tools_config", "docker_config"}

\* the fields of a section tried: those of the schema and one it lacks
SectionFieldNames(section_name) ==
    CASE section_name = "shell_config" -> {"preferred_shell", "oh_my_zsh_plugins", "zz_unknown"}
      [] section_name = "tmux_config" -> {"theme", "prefix", "settings", "zz_unknown"}
      [] section_name = "tools_config" -> {"probe", "zz_unknown"}
      [] section_name = "docker_config" ->
            {"install_compose", "compose_version", "networks", "zz_unknown"}

\* the only file is operators/a/vars.yml, holding doc
OnlyA(doc) == [n \in Names |-> IF n = "a" THEN Doc(doc) ELSE Missing]

\* metadata fields present or absent, well or ill typed, against every list
\* of required fields
InitMetadata ==
    \E required \in RequiredLists :
    \E name, version, description, author \in {Absent, Str(<<"a">>), Int_(1)} :
        /\ schema = Schema(required, PluginsRule, ProbeRule)
        /\ files = OnlyA(Dict(PairIf("operator_name", name)
                              \o PairIf("operator_version", version)
                              \o PairIf("operator_description", description)
                              \o PairIf("operator_author", author)))

\* one metadata field given every value
InitMetadataValue ==
    \E field \in {"operator_name", "operator_version", "operator_description"} :
    \E v \in Values :
        /\ schema = StdSchema
        /\ files = OnlyA(Dict(SelectSeq(BaseMeta("a"), LAMBDA p : p[1] # field)
                              \o <<(<<field, v>>)>>))

\* a file that parses to something else than a mapping
InitNonMapping ==
    \E required \in {<<>>, StdRequired} :
    \E doc \in NonMappings :
        /\ schema = Schema(required, PluginsRule, ProbeRule)
        /\ files = OnlyA(doc)

\* one section, not a mapping or a mapping with one field given every value
InitSection ==
    \E plugins_rule \in PluginsRules :
    \E section_name \in SectionNames :
    \E section \in Values \cup
                   {Dict(<<(<<field, v>>)>>) :
                        field \in SectionFieldNames(section_name), v \in Values} :
        /\ plugins_rule # PluginsRule => section_name = "shell_config"
        /\ schema = Schema(StdRequired, plugins_rule, ProbeRule)
        /\ files = OnlyA(Dict(BaseMeta("a") \o <<(<<section_name, section>>)>>))

\* tmux_config.settings, a mapping with one setting given every value
InitSettings ==
    \E setting \in {"mouse", "base_index", "status_position", "reserved", "zz_unknown"} :
    \E v \in Values :
        /\ schema = StdSchema
        /\ files = OnlyA(Dict(BaseMeta("a") \o
              <<(<<"tmux_config",
                   Dict(<<(<<"settings", Dict(<<(<<setting, v>>)>>)>>)>>)>>)>>))

\* one field under every rule, given every value
InitRule ==
    \E rule \in Rules :
    \E v \in Values :
        /\ schema = Schema(StdRequired, PluginsRule, rule)
        /\ files = OnlyA(Dict(BaseMeta("a") \o
              <<(<<"tools_config", Dict(<<(<<"probe", v>>)>>)>>)>>))

\* the states of the file of an operator that may extend another
ExtendsValues ==
    {Absent, Int_(1), Null, Str(<<"n", "o">>)} \cup {Str(<<n>>) : n \in Names}

OperatorFiles(name) ==
    {Missing, OsError, YamlError, Undecodable, Doc(Null), Doc(List(<<>>))} \cup
    {Doc(Dict(PairIf("operator_name", operator_name)
              \o SelectSeq(BaseMeta(name), LAMBDA p : p[1] # "operator_name")
              \o PairIf("extends", extends))) :
        operator_name \in {Absent, GoodName(name)} \cup {GoodName(n) : n \in Names},
        extends \in ExtendsValues}

\* two operators that may extend each other, a third without parent
InitInheritance ==
    \E a \in OperatorFiles("a") :
    \E b \in OperatorFiles("b") :
    \E c \in {Missing, Doc(Dict(BaseMeta("c")))} :
        /\ (a.kind = "missing" /\ b.kind = "missing") => c.kind = "missing"
        /\ schema = StdSchema
        /\ files = [n \in Names |-> IF n = "a" THEN a ELSE IF n = "b" THEN b ELSE c]

\* three valid operators, each extending any of the three
InitChain ==
    \E parent \in [Names -> Names] :
        /\ schema = StdSchema
        /\ files = [n \in Names |->
              Doc(Dict(BaseMeta(n) \o <<(<<"extends", GoodName(parent[n])>>)>>))]

\* a schema whose shell_config group has no rule for oh_my_zsh_plugins
SchemaWithoutPluginsRule ==
    [StdSchema EXCEPT !.shell_config.field_types =
        Restrict(@, {"preferred_shell"})]

\* a whole document: fields the schema knows next to fields it lacks, at
\* top level, in two sections and in tmux_config.settings, with or without
\* a parent that does not exist
InitDocument ==
    \E sch \in {StdSchema, SchemaWithoutPluginsRule} :
    \E top_unknown \in {Absent, Int_(1)} :
    \E preferred_shell \in {Str(<<"z">>), Str(<<"a">>)} :
    \E plugins \in {Absent, List(<<"a">>), List(Rep("a", PluginLimit + 1)), Int_(1)} :
    \E shell_unknown \in {Absent, List(Rep("a", PluginLimit + 1))} :
    \E shell_config \in {Absent, Str(<<"z">>),
                         Dict(<<(<<"preferred_shell", preferred_shell>>)>>
                              \o PairIf("zz_unknown", shell_unknown)
                              \o PairIf("oh_my_zsh_plugins", plugins))} :
    \E theme \in {Str(<<"a">>), Str(<<"z">>)} :
    \E settings \in {Absent,
                     Dict(<<(<<"zz_unknown", Str(<<"a">>)>>),
                            (<<"base_index", Int_(-1)>>)>>)} :
    \E tmux_config \in {Absent,
                        Dict(<<(<<"theme", theme>>)>> \o PairIf("settings", settings))} :
    \E extends \in {Absent, Str(<<"n", "o">>)} :
        /\ shell_config.shape # "dict" =>
              /\ preferred_shell = Str(<<"z">>)
              /\ plugins = Absent
              /\ shell_unknown = Absent
        /\ tmux_config = Absent => theme = Str(<<"a">>) /\ settings = Absent
        /\ schema = sch
        /\ files = OnlyA(Dict(PairIf("zz_unknown", top_unknown)
                              \o BaseMeta("a")
                              \o PairIf("shell_config", shell_config)
                              \o PairIf("tmux_config", tmux_config)
                              \o PairIf("extends", extends)))

\* no call of create_operator yet
NoCreation ==
    [name |-> <<>>, parent |-> Null, template |-> "none", exc |-> "idle", config |-> Null]

\* no call of validate_operator yet
NoCall == [target |-> "none", outcome |-> "idle", returned |-> <<>>, list |-> <<>>]

\* a document with a violation in every part, its keys in every order
DisorderedPairs ==
    <<(<<"operator_version", Int_(1)>>),
      (<<"shell_config", Dict(<<(<<"preferred_shell", Str(<<"a">>)>>)>>)>>),
      (<<"tmux_config", Dict(<<(<<"theme", Str(<<"z">>)>>)>>)>>),
      (<<"tools_config", Dict(<<(<<"probe", Int_(1)>>)>>)>>),
      (<<"docker_config", Dict(<<(<<"compose_version", Str(<<"a">>)>>)>>)>>),
      (<<"extends", Str(<<"n", "o">>)>>)>>

InitKeyOrder ==
    \E order \in {f \in [DOMAIN DisorderedPairs -> DOMAIN DisorderedPairs] :
                     \A i, j \in DOMAIN f : f[i] = f[j] => i = j} :
        /\ schema = StdSchema
        /\ files = OnlyA(Dict([i \in DOMAIN DisorderedPairs |-> DisorderedPairs[order[i]]]))

Init ==
    /\ \/ InitMetadata
       \/ InitKeyOrder
       \/ InitDocument
       \/ InitMetadataValue
       \/ InitNonMapping
       \/ InitSection
       \/ InitSettings
       \/ InitRule
       \/ InitInheritance
       \/ InitChain
    /\ results = <<>>
    /\ earlier = NoCall
    /\ outcome = "idle"
    /\ target = "none"
    /\ opened = <<>>
    /\ printed = <<>>
    /\ pc = "ready"
    /\ pending = {}
    /\ all_passed = TRUE
    /\ validated = {}
    /\ errorSeen = FALSE
    /\ exitCode = 0
    /\ dirs = {<<n>> : n \in {m \in Names : Exists(files[m])}}
    /\ readmes = {}
    /\ generated = NoCreation
    /\ stats = NoStats
    /\ roles = NoRoles
    /\ play = NoPlay
    /\ breakdown = <<>>

----------------------------------------------------------------------------
(* The operations.                                                         *)

HasError(res) == \E i \in 1..Len(res) : res[i].level = ERROR

\* the call, were it to append to the list of the call before
ValidatedNoReset(name, run) ==
    /\ results' = results \o run.res
    /\ earlier' = [target |-> target, outcome |-> outcome,
                   returned |-> results, list |-> results \o run.res]
    /\ outcome' = IF run.exc = NoExc THEN "returned" ELSE run.exc
    /\ target' = name
    /\ opened' = run.opened
    /\ validated' = validated \cup {name}
    /\ errorSeen' = (errorSeen \/ HasError(run.res))

\* the call, were it to empty the list in place (self.results.clear()): the
\* list returned before is the list filled now
ValidatedSameList(name, run) ==
    /\ results' = run.res
    /\ earlier' = [target |-> target, outcome |-> outcome,
                   returned |-> results, list |-> run.res]
    /\ outcome' = IF run.exc = NoExc THEN "returned" ELSE run.exc
    /\ target' = name
    /\ opened' = run.opened
    /\ validated' = validated \cup {name}
    /\ errorSeen' = (errorSeen \/ HasError(run.res))

\* what a call of validate_operator leaves in the validator: self.results
\* is bound to a new list (line 57), the one returned; the list of the call
\* before keeps what it held
Validated(name, run) ==
    /\ results' = run.res
    /\ earlier' = [target |-> target, outcome |-> outcome,
                   returned |-> results, list |-> results]
    /\ outcome' = IF run.exc = NoExc THEN "returned" ELSE run.exc
    /\ target' = name
    /\ opened' = run.opened
    /\ validated' = validated \cup {name}
    /\ errorSeen' = (errorSeen \/ HasError(run.res))

\* validator.validate_operator(path), called as the tests call it
ValidateOperator(name) ==
    /\ pc \in {"ready", "api"}
    /\ Validated(name, ValidateOperatorRun(schema, files, name))
    /\ pc' = "api"
    /\ UNCHANGED <<schema, files, printed, pending, all_passed, exitCode>>
    /\ UNCHANGED <<generator_vars, progress_vars>>

\* validator.print_results(show_info), called on its own
PrintResults(show_info) ==
    /\ pc = "api"
    /\ printed' = PrintResultsLines(results, show_info)
    /\ IF PrintResultsExits(results)
       THEN pc' = "exited" /\ exitCode' = 1
       ELSE UNCHANGED <<pc, exitCode>>
    /\ UNCHANGED <<schema, files, results, earlier, outcome, target, opened,
                   pending, all_passed, validated, errorSeen>>
    /\ UNCHANGED <<generator_vars, progress_vars>>

\* main() with an operator name: lines 356-370, then the end of main
MainSingle(name, show_info) ==
    /\ pc = "ready"
    /\ pc' = "exited"
    /\ IF ~Exists(files[name])
       THEN /\ exitCode' = 1
            /\ UNCHANGED <<results, earlier, outcome, target, opened, printed,
                           validated, errorSeen>>
       ELSE LET run == ValidateOperatorRun(schema, files, name) IN
            /\ Validated(name, run)
            /\ IF run.exc # NoExc
               THEN exitCode' = 1 /\ UNCHANGED printed
               ELSE /\ printed' = PrintResultsLines(run.res, show_info)
                    /\ exitCode' = IF PrintResultsExits(run.res) THEN 1 ELSE 0
    /\ UNCHANGED <<schema, files, pending, all_passed>>
    /\ UNCHANGED <<generator_vars, progress_vars>>

\* main() --all: up to the loop over operators_dir.iterdir()
MainAllBegin ==
    /\ pc = "ready"
    /\ pc' = "all"
    /\ pending' = {n \in Names : Exists(files[n])}
    /\ all_passed' = TRUE
    /\ UNCHANGED <<schema, files, results, earlier, outcome, target, opened, printed,
                   validated, errorSeen, exitCode>>
    /\ UNCHANGED <<generator_vars, progress_vars>>

\* one iteration of the loop, on any directory not iterated yet: iterdir()
\* yields the directories in no particular order
MainAllStep(name, show_info) ==
    /\ pc = "all"
    /\ name \in pending
    /\ pending' = pending \ {name}
    /\ LET run == ValidateOperatorRun(schema, files, name) IN
       /\ Validated(name, run)
       /\ IF run.exc # NoExc
          THEN pc' = "exited" /\ exitCode' = 1 /\ UNCHANGED <<printed, all_passed>>
          ELSE /\ printed' = PrintResultsLines(run.res, show_info)
               /\ IF PrintResultsExits(run.res)
                  THEN pc' = "exited" /\ exitCode' = 1 /\ UNCHANGED all_passed
                  ELSE /\ all_passed' = (all_passed /\ ~HasError(run.res))
                       /\ UNCHANGED <<pc, exitCode>>
    /\ UNCHANGED <<schema, files>>
    /\ UNCHANGED <<generator_vars, progress_vars>>

\* the loop is over: lines 350-354
MainAllEnd ==
    /\ pc = "all"
    /\ pending = {}
    /\ pc' = "exited"
    /\ exitCode' = IF all_passed THEN 0 ELSE 1
    /\ UNCHANGED <<schema, files, results, earlier, outcome, target, opened, printed,
                   pending, all_passed, validated, errorSeen>>
    /\ UNCHANGED <<generator_vars, progress_vars>>

\* main() with neither --all nor an operator: parser.print_help()
MainHelp ==
    /\ pc = "ready"
    /\ pc' = "exited"
    /\ exitCode' = 0
    /\ UNCHANGED <<schema, files, results, earlier, outcome, target, opened, printed,
                   pending, all_passed, validated, errorSeen>>
    /\ UNCHANGED <<generator_vars, progress_vars>>

Next ==
    \/ \E name \in Names : ValidateOperator(name)
    \/ \E show_info \in BOOLEAN : PrintResults(show_info)
    \/ \E name \in Names, show_info \in BOOLEAN : MainSingle(name, show_info)
    \/ MainAllBegin
    \/ \E name \in Names, show_info \in BOOLEAN : MainAllStep(name, show_info)
    \/ MainAllEnd
    \/ MainHelp

Spec == Init /\ [][Next]_vars

----------------------------------------------------------------------------
(* create_operator.py: OperatorGenerator.  The strings of the templates    *)
(* are abbreviated to the characters of the schemas above ("zsh" is "z",   *)
(* "1.0.0" is "1.0", compose version "v2" is "2").                         *)

\* bool(v) of a value
Truthy(v) ==
    CASE v.shape = "str" -> v.s # <<>>
      [] v.shape = "list" -> v.items # <<>>
      [] v.shape = "dict" -> v.pairs # <<>>
      [] v.shape \in {"int", "bool"} -> v.n # 0
      [] OTHER -> FALSE

\* d[key] = v: the key keeps its place if d has it, else it is added last
DictSet(d, key, v) ==
    IF Has(d, key)
    THEN Dict([i \in 1..Len(d.pairs) |->
                  IF d.pairs[i][1] = key THEN <<key, v>> ELSE d.pairs[i]])
    ELSE Dict(Append(d.pairs, <<key, v>>))

\* the keys of the templates that start with "#"
CommentKeys ==
    {"# Operator metadata", "# Shell configuration", "# Tmux configuration",
     "# Tools configuration", "# Docker configuration"}

\* the keys of the templates that k.strip() empties
BlankKeys == {"", " ", "  ", "   "}

TemplateShell ==
    Dict(<<(<<"preferred_shell", Str(<<"z">>)>>),
           (<<"oh_my_zsh_theme", Str(<<"r">>)>>),
           (<<"oh_my_zsh_plugins", List(<<"g", "d">>)>>),
           (<<"aliases", Dict(<<(<<"ll", Str(<<"l">>)>>)>>)>>),
           (<<"environment", Dict(<<(<<"EDITOR", Str(<<"v">>)>>)>>)>>)>>)

TemplateTmux ==
    Dict(<<(<<"prefix", Str(<<"C", "-", "a">>)>>),
           (<<"settings", Dict(<<(<<"base_index", Int_(1)>>),
                                 (<<"history_limit", Int_(10000)>>),
                                 (<<"mouse", Bool(TRUE)>>)>>)>>),
           (<<"plugins", Dict(<<(<<"enabled", Bool(TRUE)>>)>>)>>)>>)

TemplateTools == Dict(<<(<<"essential_tools", List(<<"fd", "ripgrep">>)>>)>>)

TemplateDocker ==
    Dict(<<(<<"install_compose", Bool(TRUE)>>),
           (<<"compose_version", Str(<<"2">>)>>),
           (<<"install_buildx", Bool(TRUE)>>)>>)

TemplateMetadata ==
    <<(<<"# Operator metadata", Null>>),
      (<<"operator_name", Str(<<>>)>>),
      (<<"operator_version", GoodVersion>>),
      (<<"operator_description", Str(<<>>)>>)>>

MinimalTemplate ==
    Dict(TemplateMetadata
         \o <<(<<"", Null>>), (<<"# Shell configuration", Null>>),
              (<<"shell_config", TemplateShell>>)>>)

StandardTemplate ==
    Dict(MinimalTemplate.pairs
         \o <<(<<" ", Null>>), (<<"# Tmux configuration", Null>>),
              (<<"tmux_config", TemplateTmux>>),
              (<<"  ", Null>>), (<<"# Tools configuration", Null>>),
              (<<"tools_config", TemplateTools>>)>>)

AdvancedTemplate ==
    Dict(TemplateMetadata
         \o <<(<<"operator_author", Str(<<>>)>>),
              (<<"operator_tags", List(<<"development">>)>>)>>
         \o SubSeq(StandardTemplate.pairs, Len(TemplateMetadata) + 1,
                   Len(StandardTemplate.pairs))
         \o <<(<<"   ", Null>>), (<<"# Docker configuration", Null>>),
              (<<"docker_config", TemplateDocker>>)>>)

\* self.templates
TemplateNames == {"minimal", "standard", "advanced"}

Templates(template) ==
    CASE template = "minimal" -> MinimalTemplate
      [] template = "standard" -> StandardTemplate
      [] template = "advanced" -> AdvancedTemplate

\* str.title() on the characters of the names
Title(s) ==
    [i \in DOMAIN s |->
        IF i > 1 THEN s[i]
        ELSE CASE s[i] = "a" -> "A" [] s[i] = "b" -> "B" [] s[i] = "c" -> "C"
               [] OTHER -> s[i]]

\* f"{name.title()} operator configuration"
DefaultDescription(name) == Str(Title(name.s) \o <<" ", "o">>)

\* kwargs.get(key, default)
KwGet(kwargs, key, default) == IF key \in DOMAIN kwargs THEN kwargs[key] ELSE default


\* {k: v for k, v in ... if not k.startswith("#") and k.strip()}
RemoveCommentKeys(d) ==
    Dict(SelectSeq(d.pairs, LAMBDA q : q[1] \notin CommentKeys /\ q[1] \notin BlankKeys))

\* generate_operator_config(config), config the record of create_operator
GenerateOperatorConfig(config) ==
    LET template == RemoveCommentKeys(Templates(config.template))
        named == DictSet(template, "operator_name", config.name)
        versioned == DictSet(named, "operator_version", config.version)
        described == DictSet(versioned, "operator_description", config.description)
        authored == IF Truthy(config.author)
                    THEN DictSet(described, "operator_author", config.author)
                    ELSE described
        extended == IF Truthy(config.parent)
                    THEN DictSet(authored, "extends", config.parent)
                    ELSE authored
    IN  IF Truthy(config.tags)
        THEN DictSet(extended, "operator_tags", config.tags)
        ELSE extended

\* yaml.dump: the document as a tree of tagged YAML nodes; the header
\* comments of _format_yaml_with_comments are no nodes
RECURSIVE YamlDump(_)
YamlDump(v) ==
    CASE v.shape = "str" -> [tag |-> "!!str", text |-> v.s]
      [] v.shape = "int" -> [tag |-> "!!int", text |-> v.n]
      [] v.shape = "bool" -> [tag |-> "!!bool", text |-> IF v.n = 1 THEN "true" ELSE "false"]
      [] v.shape = "null" -> [tag |-> "!!null", text |-> "null"]
      [] v.shape = "list" -> [tag |-> "!!seq", text |-> v.items]
      [] v.shape = "dict" ->
            [tag |-> "!!map",
             text |-> [i \in 1..Len(v.pairs) |-> <<v.pairs[i][1], YamlDump(v.pairs[i][2])>>]]

\* yaml.safe_load of the nodes
RECURSIVE YamlLoad(_)
YamlLoad(node) ==
    CASE node.tag = "!!str" -> Str(node.text)
      [] node.tag = "!!int" -> Int_(node.text)
      [] node.tag = "!!bool" -> Bool(node.text = "true")
      [] node.tag = "!!null" -> Null
      [] node.tag = "!!seq" -> List(node.text)
      [] node.tag = "!!map" ->
            Dict([i \in 1..Len(node.text) |-> <<node.text[i][1], YamlLoad(node.text[i][2])>>])

\* validate_operator_name: bool(re.match(pattern, name))
ValidateOperatorName(sch, name) ==
    ReMatch(sch.operator_metadata.field_types.operator_name.pattern, name.s)

\* check_operator_exists
CheckOperatorExists(fs, name) == Exists(FileAt(fs, name.s))

\* get_available_parents: the directories that hold a vars.yml
GetAvailableParents(fs, ds) == {d \in ds : Exists(FileAt(fs, d))}

\* the non-interactive branch of create_operator and generate_operator_config:
\* the exception raised and the configuration to write
CreateOperatorRun(sch, fs, ds, name, parent, template, kwargs) ==
    IF ~ValidateOperatorName(sch, name) THEN [exc |-> "ValueError", config |-> Null]
    ELSE IF CheckOperatorExists(fs, name) THEN [exc |-> "ValueError", config |-> Null]
    ELSE IF Truthy(parent) /\ parent.s \notin GetAvailableParents(fs, ds)
    THEN [exc |-> "ValueError", config |-> Null]
    ELSE IF template \notin TemplateNames THEN [exc |-> "ValueError", config |-> Null]
    ELSE [exc |-> NoExc,
          config |-> GenerateOperatorConfig(
             [name |-> name,
              version |-> KwGet(kwargs, "version", GoodVersion),
              description |-> KwGet(kwargs, "description", DefaultDescription(name)),
              author |-> KwGet(kwargs, "author", Null),
              parent |-> parent,
              template |-> template,
              tags |-> KwGet(kwargs, "tags", List(<<"development">>))])]

\* what a call of create_operator leaves: create_operator_directory makes
\* the directory and writes vars.yml and README.md
Created(name, parent, template, run) ==
    /\ generated' = [name |-> name.s, parent |-> parent, template |-> template,
                     exc |-> run.exc, config |-> run.config]
    /\ IF run.exc # NoExc THEN UNCHANGED <<files, dirs, readmes>>
       ELSE /\ dirs' = dirs \cup {name.s}
            /\ readmes' = readmes \cup {name.s}
            /\ files' = IF Len(name.s) = 1 /\ name.s[1] \in Names
                        THEN [files EXCEPT ![name.s[1]] = Doc(YamlLoad(YamlDump(run.config)))]
                        ELSE files
    /\ UNCHANGED <<schema, results, earlier, outcome, target, opened, printed,
                   pc, pending, all_passed, validated, errorSeen, exitCode>>
    /\ UNCHANGED progress_vars

\* generator.create_operator(name, parent, template, **kwargs), called once
CreateOperator(name, parent, template, kwargs) ==
    /\ generated.exc = "idle"
    /\ pc = "ready"
    /\ Created(name, parent, template,
               CreateOperatorRun(schema, files, dirs, name, parent, template, kwargs))

\* main() of create_operator.py with a name: every option is handed to
\* create_operator, None for --description and --author when omitted, and
\* [] for --tags
CreateMain(name, parent, template, version, description, author, tags) ==
    /\ generated.exc = "idle"
    /\ pc = "ready"
    /\ Created(name, parent, template,
               CreateOperatorRun(schema, files, dirs, name, parent, template,
                  [version |-> version, description |-> description,
                   author |-> author, tags |-> tags]))

\* the names, parents and options given to create_operator
NameInputs == {Str(<<"a">>), Str(<<"b">>), Str(<<"a", "\n">>), Str(<<"A">>), Str(<<>>)}

ParentInputs == {Null, Str(<<>>), Str(<<"b">>), Str(<<"c">>)}

KwargsInputs ==
    UNION {[keys -> {Str(<<"d">>)}] : keys \in SUBSET {"description", "author"}}
    \cup {[k \in {"tags"} |-> tags] : tags \in {List(<<>>), List(<<"t">>)}}
    \cup {[k \in {"version"} |-> GoodVersion]}

\* operators a and b present or not, c a directory without vars.yml or not
InitGenerate ==
    /\ \E a \in {Missing, Doc(Dict(BaseMeta("a")))} :
       \E b \in {Missing, Doc(Dict(BaseMeta("b")))} :
       \E c \in SUBSET {<<"c">>} :
          /\ files = [n \in Names |-> IF n = "a" THEN a ELSE IF n = "b" THEN b ELSE Missing]
          /\ dirs = {<<n>> : n \in {m \in Names : Exists(files[m])}} \cup c
    /\ schema = StdSchema
    /\ results = <<>>
    /\ earlier = NoCall
    /\ outcome = "idle"
    /\ target = "none"
    /\ opened = <<>>
    /\ printed = <<>>
    /\ pc = "ready"
    /\ pending = {}
    /\ all_passed = TRUE
    /\ validated = {}
    /\ errorSeen = FALSE
    /\ exitCode = 0
    /\ readmes = {}
    /\ generated = NoCreation
    /\ stats = NoStats
    /\ roles = NoRoles
    /\ play = NoPlay
    /\ breakdown = <<>>

NextGenerate ==
    \/ \E name \in NameInputs, parent \in ParentInputs,
          template \in TemplateNames \cup {"custom"}, kwargs \in KwargsInputs :
            CreateOperator(name, parent, template, kwargs)
    \/ \E name \in NameInputs \ {Str(<<>>)}, parent \in ParentInputs \ {Str(<<>>)},
          template \in TemplateNames,
          description \in {Null, Str(<<"d">>)}, author \in {Null, Str(<<"x">>)},
          tags \in {List(<<>>), List(<<"t">>)} :
            CreateMain(name, parent, template, GoodVersion, description, author, tags)
    \/ \E name \in Names : ValidateOperator(name)

SpecGenerate == InitGenerate /\ [][NextGenerate]_vars

----------------------------------------------------------------------------
(* matrix_progress.py: CallbackModule.  Ansible starts a task, every host  *)
(* still in the play reports one result for it, and the next task starts;  *)
(* a host that failed or was unreachable has left the play.                *)

Hosts == {"h1", "h2"}

\* the tasks a play starts, at most
MaxTasks == 3

\* defaultdict[key] += 1
Incr(d, key) == [d EXCEPT ![key] = @ + 1]

\* if self.roles.current: self.roles.completed[self.roles.current] += 1
CompleteCurrent(r) ==
    IF r.current # NoRole
    THEN [r EXCEPT !.completed = Incr(r.completed, r.current)]
    ELSE r

\* v2_playbook_on_task_start, role what _get_role_from_task returns
TaskStartRoles(r, role) ==
    IF role = NoRole THEN r
    ELSE LET entered == IF role # r.current
                        THEN [r EXCEPT !.current = role,
                                       !.order = IF \E i \in DOMAIN r.order : r.order[i] = role
                                                 THEN @ ELSE Append(@, role)]
                        ELSE r
         IN  [entered EXCEPT !.tasks = Incr(entered.tasks, role)]

\* the play begins with its hosts
PlayStart(hosts) ==
    /\ play = NoPlay
    /\ hosts # {}
    /\ play' = [hosts |-> hosts, alive |-> hosts, reported |-> hosts, ended |-> FALSE]
    /\ UNCHANGED <<stats, roles, breakdown>>
    /\ UNCHANGED <<validator_vars, generator_vars>>

PlaybookOnTaskStart(role) ==
    /\ play.hosts # {} /\ ~play.ended
    /\ play.alive # {}
    /\ play.reported = play.alive
    /\ stats.total < MaxTasks
    /\ stats' = [stats EXCEPT !.total = @ + 1]
    /\ roles' = TaskStartRoles(roles, role)
    /\ play' = [play EXCEPT !.reported = {}]
    /\ UNCHANGED breakdown
    /\ UNCHANGED <<validator_vars, generator_vars>>

\* host reports a result for the task that runs
Reports(host) ==
    /\ ~play.ended
    /\ stats.total > 0
    /\ host \in play.alive \ play.reported

RunnerOnOk(host, changed) ==
    /\ Reports(host)
    /\ stats' = [stats EXCEPT !.completed = @ + 1,
                              !.changed = IF changed THEN @ + 1 ELSE @]
    /\ roles' = CompleteCurrent(roles)
    /\ play' = [play EXCEPT !.reported = @ \cup {host}]
    /\ UNCHANGED breakdown
    /\ UNCHANGED <<validator_vars, generator_vars>>

RunnerOnFailed(host) ==
    /\ Reports(host)
    /\ stats' = [stats EXCEPT !.completed = @ + 1, !.failed = @ + 1]
    /\ roles' = CompleteCurrent(roles)
    /\ play' = [play EXCEPT !.alive = @ \ {host}]
    /\ UNCHANGED breakdown
    /\ UNCHANGED <<validator_vars, generator_vars>>

RunnerOnUnreachable(host) ==
    /\ Reports(host)
    /\ stats' = [stats EXCEPT !.completed = @ + 1, !.failed = @ + 1]
    /\ play' = [play EXCEPT !.alive = @ \ {host}]
    /\ UNCHANGED <<roles, breakdown>>
    /\ UNCHANGED <<validator_vars, generator_vars>>

RunnerOnSkipped(host) ==
    /\ Reports(host)
    /\ stats' = [stats EXCEPT !.completed = @ + 1, !.skipped = @ + 1]
    /\ roles' = CompleteCurrent(roles)
    /\ play' = [play EXCEPT !.reported = @ \cup {host}]
    /\ UNCHANGED breakdown
    /\ UNCHANGED <<validator_vars, generator_vars>>

\* _print_role_breakdown: a line for every role in order with total > 0
RoleBreakdown(r) ==
    LET shown == SelectSeq(r.order, LAMBDA role : r.tasks[role] > 0)
    IN  [i \in 1..Len(shown) |->
            [role |-> shown[i], completed |-> r.completed[shown[i]],
             total |-> r.tasks[shown[i]]]]

\* v2_playbook_on_stats, once no result is awaited
PlaybookOnStats ==
    /\ play.hosts # {} /\ ~play.ended
    /\ play.reported = play.alive
    /\ breakdown' = RoleBreakdown(roles)
    /\ play' = [play EXCEPT !.ended = TRUE]
    /\ UNCHANGED <<stats, roles>>
    /\ UNCHANGED <<validator_vars, generator_vars>>

InitProgress ==
    /\ schema = StdSchema
    /\ files = [n \in Names |-> Missing]
    /\ results = <<>>
    /\ earlier = NoCall
    /\ outcome = "idle"
    /\ target = "none"
    /\ opened = <<>>
    /\ printed = <<>>
    /\ pc = "ready"
    /\ pending = {}
    /\ all_passed = TRUE
    /\ validated = {}
    /\ errorSeen = FALSE
    /\ exitCode = 0
    /\ dirs = {}
    /\ readmes = {}
    /\ generated = NoCreation
    /\ stats = NoStats
    /\ roles = NoRoles
    /\ play = NoPlay
    /\ breakdown = <<>>

NextProgress ==
    \/ \E hosts \in SUBSET Hosts : PlayStart(hosts)
    \/ \E role \in Roles \cup {NoRole} : PlaybookOnTaskStart(role)
    \/ \E host \in Hosts, changed \in BOOLEAN : RunnerOnOk(host, changed)
    \/ \E host \in Hosts : RunnerOnFailed(host)
    \/ \E host \in Hosts : RunnerOnUnreachable(host)
    \/ \E host \in Hosts : RunnerOnSkipped(host)
    \/ PlaybookOnStats

SpecProgress == InitProgress /\ [][NextProgress]_vars

----------------------------------------------------------------------------
(* Vocabulary of the properties.                                           *)

\* a call of validate_operator has ended
Called == outcome # "idle"

Returned == outcome = "returned"

\* the document the last call was about, when its file parses
Parsed == target \in Names /\ files[target].kind = "doc"

TargetDoc == files[target].doc

Range(s) == {s[i] : i \in DOMAIN s}

\* the diagnostics of a field, in order
Of(res, field) == SelectSeq(res, LAMBDA r : r.field = field)

RequiredFields == Range(schema.operator_metadata.required_fields)

\* the runtime shape a rule's type asks for
ShapeFor(type) ==
    CASE type = "string" -> "str"
      [] type = "array" -> "list"
      [] type = "object" -> "dict"
      [] type = "boolean" -> "bool"
      [] type = "integer" -> "int"

\* the fields of a section (a mapping) that have a rule, with rule and value
SectionChecked(section_name, section, field_types) ==
    {[field |-> <<section_name, section.pairs[i][1]>>,
      value |-> section.pairs[i][2],
      rules |-> field_types[section.pairs[i][1]]] :
        i \in {j \in DOMAIN section.pairs : section.pairs[j][1] \in DOMAIN field_types}}

\* the settings of tmux_config.settings that have a rule
SettingsChecked(tmux_config, properties) ==
    IF Has(tmux_config, "settings") /\ Get(tmux_config, "settings").shape = "dict"
    THEN {[field |-> <<"tmux_config", "settings", Get(tmux_config, "settings").pairs[i][1]>>,
           value |-> Get(tmux_config, "settings").pairs[i][2],
           rules |-> properties[Get(tmux_config, "settings").pairs[i][1]]] :
             i \in {j \in DOMAIN Get(tmux_config, "settings").pairs :
                       /\ Get(tmux_config, "settings").pairs[j][1] \in DOMAIN properties
                       /\ DOMAIN properties[Get(tmux_config, "settings").pairs[j][1]] # {}}}
    ELSE {}

\* every field of the document, a mapping, that has a rule in the schema
Checked(sch, doc) ==
    {[field |-> <<f>>, value |-> Get(doc, f), rules |-> sch.operator_metadata.field_types[f]] :
        f \in {g \in DOMAIN sch.operator_metadata.field_types : Has(doc, g)}}
    \cup UNION {IF Has(doc, s) /\ Get(doc, s).shape = "dict"
                THEN SectionChecked(s, Get(doc, s), sch[s].field_types)
                ELSE {} : s \in SectionNames}
    \cup (IF Has(doc, "tmux_config") /\ Get(doc, "tmux_config").shape = "dict"
          THEN SettingsChecked(Get(doc, "tmux_config"),
                               sch.tmux_config.field_types.settings.properties)
          ELSE {})

\* the value has not the shape the rule's type asks for
WrongShape(c) ==
    /\ "type" \in DOMAIN c.rules
    /\ c.value.shape # ShapeFor(c.rules.type)

TypeTexts == {"Field must be a string, got", "Field must be an array, got"}
PatternTexts == {"Field value doesn't match required pattern"}
EnumTexts == {"Field value not in allowed values:"}
SizeTexts == {"Field exceeds maximum length of", "Field has items, recommended maximum:",
              "Large number of plugins may slow shell startup"}

----------------------------------------------------------------------------
(* C1: when the document parses to a mapping, validate_operator leaves     *)
(* exactly one Error for each required metadata field the document lacks,  *)
(* with that field's name as its field and a suggestion that names the     *)
(* field, N missing fields giving N missing-field Errors, and no           *)
(* missing-field diagnostic for a required field that is present.          *)

MissingFieldDiags(res) ==
    SelectSeq(res, LAMBDA r : r.message.text = "Required field is missing")

C1_MissingRequiredFields ==
    (Called /\ Parsed /\ TargetDoc.shape = "dict") =>
        /\ \A f \in RequiredFields :
              IF Has(TargetDoc, f)
              THEN Of(MissingFieldDiags(results), <<f>>) = <<>>
              ELSE /\ Len(Of(Level(results, ERROR), <<f>>)) = 1
                   /\ Of(MissingFieldDiags(results), <<f>>) = Of(Level(results, ERROR), <<f>>)
                   /\ Of(results, <<f>>)[1].suggestion # NoSuggestion
                   /\ "field" \in Range(Of(results, <<f>>)[1].suggestion.args)
        /\ Len(MissingFieldDiags(results)) =
              Cardinality({f \in RequiredFields : ~Has(TargetDoc, f)})

\* a mapping that lacks two required fields and has a third was validated
C1_Witness ==
    /\ Returned /\ Parsed /\ TargetDoc.shape = "dict"
    /\ Cardinality({f \in RequiredFields : ~Has(TargetDoc, f)}) = 2
    /\ \E f \in RequiredFields : Has(TargetDoc, f)
    /\ Len(MissingFieldDiags(results)) = 2

----------------------------------------------------------------------------
(* C2: a process that validated some operator exits with a non-zero status *)
(* if and only if a validation produced an Error diagnostic.               *)

C2_ExitFailsIffError ==
    (pc = "exited" /\ validated # {}) => (exitCode # 0 <=> errorSeen)

----------------------------------------------------------------------------
(* C3: in --all mode, when the process ends after a validation that        *)
(* returned its diagnostics, every operator directory with a vars.yml has  *)
(* been validated.                                                         *)

C3_BatchValidatesEveryOperator ==
    (pc = "exited" /\ Returned) => pending = {}

----------------------------------------------------------------------------
(* C4: a field whose value has not the shape of its rule's type gets no    *)
(* pattern, enum, length or size diagnostic: its only diagnostic is the    *)
(* type Error.                                                             *)

C4_TypeErrorOnly ==
    (Returned /\ Parsed /\ TargetDoc.shape = "dict") =>
        \A c \in Checked(schema, TargetDoc) :
            WrongShape(c) =>
                \A i \in DOMAIN results :
                    results[i].field = c.field =>
                        /\ results[i].message.text \in TypeTexts
                        /\ results[i].level = ERROR

----------------------------------------------------------------------------
(* C5: a field with a rule whose value has not the shape of the rule's     *)
(* type gets an Error diagnostic.                                          *)

C5_WrongShapeIsError ==
    (Returned /\ Parsed /\ TargetDoc.shape = "dict") =>
        \A c \in Checked(schema, TargetDoc) :
            WrongShape(c) => Level(Of(results, c.field), ERROR) # <<>>

----------------------------------------------------------------------------
(* C6: validate_operator on a file that parses, whatever the shape of the  *)
(* document and of its values, returns its diagnostics: it raises nothing. *)

C6_NeverRaises ==
    (Called /\ Parsed) => Returned

----------------------------------------------------------------------------
(* C7: no diagnostic that reports a length, item count or plugin count has *)
(* severity Error, and none that reports a type, pattern or enum violation *)
(* has severity Warning; a field whose value has the right shape and       *)
(* satisfies its pattern and enum gets no Error however long it is, and a  *)
(* field whose value exceeds no limit gets no Warning.                     *)

PatternOk(c) ==
    (c.value.shape = "str" /\ "pattern" \in DOMAIN c.rules) =>
        ReMatch(c.rules.pattern, c.value.s)

EnumOk(c) ==
    "enum" \in DOMAIN c.rules =>
        \E i \in 1..Len(c.rules.enum) : PyEq(c.value, c.rules.enum[i])

SizeOk(c) ==
    /\ (c.value.shape = "str" /\ "max_length" \in DOMAIN c.rules) =>
            Len(c.value.s) <= c.rules.max_length
    /\ (c.value.shape = "list" /\ "max_items" \in DOMAIN c.rules) =>
            Len(c.value.items) <= c.rules.max_items
    /\ (c.field = <<"shell_config", "oh_my_zsh_plugins">> /\ HasLen(c.value)) =>
            PyLen(c.value) <= PluginLimit

C7_SeverityByKind ==
    /\ \A i \in DOMAIN results :
          /\ results[i].message.text \in SizeTexts => results[i].level = WARNING
          /\ results[i].message.text \in TypeTexts \cup PatternTexts \cup EnumTexts =>
                results[i].level = ERROR
    /\ (Returned /\ Parsed /\ TargetDoc.shape = "dict") =>
          \A c \in Checked(schema, TargetDoc) :
              /\ (~WrongShape(c) /\ PatternOk(c) /\ EnumOk(c)) =>
                    Level(Of(results, c.field), ERROR) = <<>>
              /\ SizeOk(c) => Level(Of(results, c.field), WARNING) = <<>>

\* a string that is too long and fails its enum got a Warning and an Error
C7_Witness ==
    /\ Returned
    /\ \E i, j \in DOMAIN results :
          /\ results[i].field = results[j].field
          /\ results[i].message.text = "Field exceeds maximum length of"
          /\ results[i].level = WARNING
          /\ results[j].message.text \in EnumTexts
          /\ results[j].level = ERROR

----------------------------------------------------------------------------
(* C8: when the validated document A names as its extends the              *)
(* operator_name of the document B that name resolves to, and B names as   *)
(* its extends the operator_name of A and that name resolves to A, the     *)
(* returned list has exactly one diagnostic on field extends: the Error    *)
(* "Circular dependency detected".                                         *)

ParentFile == FileAt(files, Get(TargetDoc, "extends").s)

ExtendsDeclared ==
    /\ Parsed /\ TargetDoc.shape = "dict"
    /\ Has(TargetDoc, "extends")
    /\ Get(TargetDoc, "extends").shape = "str"

MutualExtends ==
    /\ ExtendsDeclared
    /\ Has(TargetDoc, "operator_name")
    /\ ParentFile.kind = "doc"
    /\ ParentFile.doc.shape = "dict"
    /\ Has(ParentFile.doc, "operator_name")
    /\ Has(ParentFile.doc, "extends")
    /\ Get(TargetDoc, "extends") = Get(ParentFile.doc, "operator_name")
    /\ Get(ParentFile.doc, "extends") = Get(TargetDoc, "operator_name")
    /\ Get(ParentFile.doc, "extends") = GoodName(target)

C8_MutualExtendsIsCircular ==
    (Returned /\ MutualExtends) =>
        /\ Len(Of(results, <<"extends">>)) = 1
        /\ Of(results, <<"extends">>)[1].level = ERROR
        /\ Of(results, <<"extends">>)[1].message.text
              = "Circular dependency detected with parent"

\* a was validated, a extends b and b extends a
C8_Witness ==
    /\ Returned /\ MutualExtends
    /\ target = "a"
    /\ Get(TargetDoc, "extends") = GoodName("b")
    /\ HasError(Of(results, <<"extends">>))

----------------------------------------------------------------------------
(* C9: when the document's extends names no existing parent file, the      *)
(* returned list has exactly one diagnostic on field extends, an Error     *)
(* with the suggestion to create the parent or fix the field, and the call *)
(* opened no file but the document's own.                                  *)

ParentMissing == ExtendsDeclared /\ ~Exists(ParentFile)

C9_MissingParent ==
    (Returned /\ ParentMissing) =>
        /\ Len(Of(results, <<"extends">>)) = 1
        /\ Of(results, <<"extends">>)[1].level = ERROR
        /\ Of(results, <<"extends">>)[1].message.text = "Parent operator not found at"
        /\ Of(results, <<"extends">>)[1].suggestion.text
              = "Create the parent operator or fix the 'extends' field"
        /\ opened = <<target>>

\* a document extending a parent that does not exist was validated
C9_Witness ==
    /\ Returned /\ ParentMissing
    /\ Len(results) >= 1
    /\ results[Len(results)].field = <<"extends">>

----------------------------------------------------------------------------
(* C10: when the parent file exists and loading it fails, the call returns *)
(* with exactly one diagnostic on field extends, a Warning.                *)

ParentLoadFails ==
    /\ ExtendsDeclared
    /\ ParentFile.kind \in {"oserror", "yamlerror", "undecodable"}

C10_UnreadableParentWarns ==
    (Called /\ ParentLoadFails) =>
        /\ Returned
        /\ Len(Of(results, <<"extends">>)) = 1
        /\ Of(results, <<"extends">>)[1].level = WARNING

----------------------------------------------------------------------------
(* C11: when the operator file cannot be read or parsed, validate_operator *)
(* returns exactly one diagnostic, an Error on field "file", and opens no  *)
(* other file.                                                             *)

Unloadable ==
    /\ target \in Names
    /\ files[target].kind \in {"missing", "oserror", "yamlerror", "undecodable"}

C11_UnloadableIsFileError ==
    (Called /\ Unloadable) =>
        /\ Returned
        /\ Len(results) = 1
        /\ results[1].level = ERROR
        /\ results[1].field = <<"file">>
        /\ opened = <<target>>

----------------------------------------------------------------------------
(* C12: fields of a document that the schema lacks for their place give no *)
(* diagnostic: the list is the one of the document without them.           *)

\* the top-level keys the schema and the validator know
KnownTop(sch) ==
    Range(sch.operator_metadata.fields) \cup Range(sch.operator_metadata.required_fields)
        \cup SectionNames \cup {"extends"}

Keep(d, keys) == Dict(SelectSeq(d.pairs, LAMBDA p : p[1] \in keys))

MapValues(d, F(_, _)) == Dict([i \in 1..Len(d.pairs) |-> <<d.pairs[i][1], F(d.pairs[i][1], d.pairs[i][2])>>])

KnownSettings(sch, key, v) ==
    IF key = "settings" /\ v.shape = "dict" /\ "settings" \in DOMAIN sch.tmux_config.field_types
    THEN Keep(v, DOMAIN sch.tmux_config.field_types["settings"].properties)
    ELSE v

\* the section without the fields its group lacks, but for those in also
KnownSection(sch, section_name, section, also) ==
    IF section.shape # "dict" THEN section
    ELSE LET kept == Keep(section, DOMAIN sch[section_name].field_types \cup also)
         IN  IF section_name = "tmux_config"
             THEN MapValues(kept, LAMBDA k, v : KnownSettings(sch, k, v))
             ELSE kept

\* doc without its unknown fields; also are fields of shell_config to keep
Known(sch, doc, also) ==
    MapValues(Keep(doc, KnownTop(sch)),
              LAMBDA k, v : IF k \in SectionNames
                            THEN KnownSection(sch, k, v,
                                              IF k = "shell_config" THEN also ELSE {})
                            ELSE v)

SameAsWithout(also) ==
    (Returned /\ Parsed /\ TargetDoc.shape = "dict") =>
        LET run == ValidateDocument(schema, files, Known(schema, TargetDoc, also))
        IN  run.exc = NoExc /\ results = run.res

\* C12 as stated: every field absent from the schema is ignored
C12_UnknownFieldsIgnored == SameAsWithout({})

\* C12 amended: every field absent from the schema is ignored, except that
\* shell_config.oh_my_zsh_plugins is subject to the plugin-count Warning
\* whether or not the schema has a rule for it
C12_UnknownFieldsIgnoredButPlugins == SameAsWithout({"oh_my_zsh_plugins"})

\* a returned call on a document with unknown fields at top level, in a
\* section and in the settings, and with diagnostics
C12_Witness ==
    /\ Returned /\ Parsed /\ TargetDoc.shape = "dict"
    /\ Has(TargetDoc, "zz_unknown")
    /\ Has(TargetDoc, "shell_config")
    /\ Has(Get(TargetDoc, "shell_config"), "zz_unknown")
    /\ Has(TargetDoc, "tmux_config")
    /\ Has(Get(TargetDoc, "tmux_config"), "settings")
    /\ Has(Get(Get(TargetDoc, "tmux_config"), "settings"), "zz_unknown")
    /\ Known(schema, TargetDoc, {"oh_my_zsh_plugins"}) # TargetDoc
    /\ results # <<>>

----------------------------------------------------------------------------
(* C13: the diagnostics of a field, and of the inheritance check, are the  *)
(* same whatever the other fields and sections of the document contain.    *)

\* the diagnostics whose field path begins with prefix
Under(res, prefix) ==
    SelectSeq(res, LAMBDA r : /\ Len(r.field) >= Len(prefix)
                              /\ SubSeq(r.field, 1, Len(prefix)) = prefix)

\* the fields of the sections of doc that are mappings
SectionFieldsOf(doc) ==
    {path \in UNION {{<<s, f>> : f \in SectionFieldNames(s)} : s \in SectionNames} :
        /\ Has(doc, path[1])
        /\ Get(doc, path[1]).shape = "dict"
        /\ Has(Get(doc, path[1]), path[2])}

\* doc with no section but the one of path, holding no field but path's
Alone(doc, path) ==
    MapValues(Keep(doc, (KnownTop(schema) \ (SectionNames \cup {"extends"}))
                            \cup {path[1]}),
              LAMBDA k, v : IF k = path[1] /\ Len(path) = 2
                            THEN Keep(v, {path[2]}) ELSE v)

Unsuppressed(path) ==
    Under(results, path) =
        Under(ValidateDocument(schema, files, Alone(TargetDoc, path)).res, path)

C13_NeverSuppressed ==
    (Called /\ Parsed /\ TargetDoc.shape = "dict") =>
        /\ \A path \in SectionFieldsOf(TargetDoc) : Unsuppressed(path)
        /\ Has(TargetDoc, "extends") => Unsuppressed(<<"extends">>)

----------------------------------------------------------------------------
(* C14: validating the same operator twice in a row, the files unchanged,  *)
(* gives the same diagnostics in the same order.                           *)

\* the last two calls were about the same operator and both returned
SameTwice ==
    /\ Returned
    /\ earlier.outcome = "returned"
    /\ earlier.target = target

C14_Idempotent == SameTwice => results = earlier.returned

\* the same operator validated twice, with several diagnostics
C14_Witness == SameTwice /\ Len(results) >= 2

----------------------------------------------------------------------------
(* C15: the list a call returns holds the diagnostics of that call's       *)
(* document and no other, the list returned by the call before is not      *)
(* altered by the call after it, and no step changes the schema.           *)

DiagnosticsOf(name) == ValidateOperatorRun(schema, files, name).res

OwnList == Returned => results = DiagnosticsOf(target)

EarlierListKept ==
    earlier.outcome = "returned" =>
        /\ earlier.returned = DiagnosticsOf(earlier.target)
        /\ earlier.list = earlier.returned

C15_CallsShareNothing ==
    /\ [](OwnList /\ EarlierListKept)
    /\ [][schema' = schema]_vars

\* two returned calls in a row on different operators with different,
\* non-empty diagnostics
C15_Witness ==
    /\ Returned
    /\ earlier.outcome = "returned"
    /\ earlier.target # target
    /\ earlier.returned # <<>>
    /\ results # <<>>
    /\ earlier.returned # results

----------------------------------------------------------------------------
(* C16: a shell_config.oh_my_zsh_plugins array with more entries than its  *)
(* limit.                                                                  *)

PluginsField == <<"shell_config", "oh_my_zsh_plugins">>

\* the call returned and the document has a list of plugins
PluginsListed ==
    /\ Returned /\ Parsed /\ TargetDoc.shape = "dict"
    /\ Has(TargetDoc, "shell_config")
    /\ Get(TargetDoc, "shell_config").shape = "dict"
    /\ Has(Get(TargetDoc, "shell_config"), "oh_my_zsh_plugins")
    /\ Get(Get(TargetDoc, "shell_config"), "oh_my_zsh_plugins").shape = "list"

PluginCount == Len(Get(Get(TargetDoc, "shell_config"), "oh_my_zsh_plugins").items)

\* more entries than the max_items of the schema's rule for the field
OverMaxItems ==
    /\ "oh_my_zsh_plugins" \in DOMAIN schema.shell_config.field_types
    /\ "max_items" \in DOMAIN schema.shell_config.field_types["oh_my_zsh_plugins"]
    /\ PluginCount > schema.shell_config.field_types["oh_my_zsh_plugins"].max_items

\* more entries than the limit of the custom check
OverPluginLimit == PluginCount > PluginLimit

MentionsCount(r) ==
    \E i \in 1..Len(r.message.args) : r.message.args[i] \in {"len(value)", "len(plugins)"}

PluginsWarnings == Level(Of(results, PluginsField), WARNING)

\* C16 as stated: exactly one Warning, mentioning the count, and no Error
C16_OneWarningForPlugins ==
    (PluginsListed /\ (OverMaxItems \/ OverPluginLimit)) =>
        /\ Len(PluginsWarnings) = 1
        /\ MentionsCount(PluginsWarnings[1])
        /\ Level(Of(results, PluginsField), ERROR) = <<>>

\* C16 amended: one Warning for each limit exceeded, the rule's max_items
\* and the fixed limit of the custom check, each mentioning the count, and
\* no Error
C16_OneWarningPerLimit ==
    (PluginsListed /\ (OverMaxItems \/ OverPluginLimit)) =>
        /\ Len(PluginsWarnings) = (IF OverMaxItems THEN 1 ELSE 0)
                                    + (IF OverPluginLimit THEN 1 ELSE 0)
        /\ \A i \in 1..Len(PluginsWarnings) : MentionsCount(PluginsWarnings[i])
        /\ Level(Of(results, PluginsField), ERROR) = <<>>

\* both limits exceeded, two Warnings
C16_Witness ==
    /\ PluginsListed /\ OverMaxItems /\ OverPluginLimit
    /\ Len(PluginsWarnings) = 2

----------------------------------------------------------------------------
(* C17: a document with every required field, whose fields all satisfy     *)
(* their rules and which has no extends, gives no diagnostic.              *)

\* the whole string is a word of the pattern
FullMatch(p, s) ==
    /\ Len(s) = Len(p.atoms)
    /\ \A i \in 1..Len(p.atoms) : s[i] \in p.atoms[i]

FullyMatches(c) ==
    (c.value.shape = "str" /\ "pattern" \in DOMAIN c.rules) =>
        FullMatch(c.rules.pattern, c.value.s)

\* the plugins of a shell_config, if any, are a list within the limit of
\* the custom check
PluginsWithinLimit(doc) ==
    (/\ Has(doc, "shell_config")
     /\ Has(Get(doc, "shell_config"), "oh_my_zsh_plugins")) =>
        /\ Get(Get(doc, "shell_config"), "oh_my_zsh_plugins").shape = "list"
        /\ PyLen(Get(Get(doc, "shell_config"), "oh_my_zsh_plugins")) <= PluginLimit

ValidDocument(sch, doc) ==
    /\ doc.shape = "dict"
    /\ \A f \in Range(sch.operator_metadata.required_fields) : Has(doc, f)
    /\ \A s \in SectionNames : Has(doc, s) => Get(doc, s).shape = "dict"
    /\ \A c \in Checked(sch, doc) :
          ~WrongShape(c) /\ FullyMatches(c) /\ EnumOk(c) /\ SizeOk(c)
    /\ PluginsWithinLimit(doc)
    /\ ~Has(doc, "extends")

C17_ValidDocumentIsClean ==
    (Called /\ Parsed /\ ValidDocument(schema, TargetDoc)) =>
        Returned /\ results = <<>>

\* a valid document with a shell and a plugin, validated
C17_Witness ==
    /\ Returned /\ Parsed /\ ValidDocument(schema, TargetDoc)
    /\ Has(TargetDoc, "shell_config")
    /\ Has(Get(TargetDoc, "shell_config"), "preferred_shell")
    /\ Has(Get(TargetDoc, "shell_config"), "oh_my_zsh_plugins")
    /\ PyLen(Get(Get(TargetDoc, "shell_config"), "oh_my_zsh_plugins")) > 0
    /\ results = <<>>

----------------------------------------------------------------------------
(* C18: a string under a rule with a pattern that does not match the       *)
(* pattern as a whole gets exactly one pattern Error on its field, which   *)
(* names the pattern; a string that matches as a whole gets none.          *)

PatternErrors(c) ==
    SelectSeq(Level(Of(results, c.field), ERROR), LAMBDA r : r.message.text \in PatternTexts)

\* the pattern is in the diagnostic, in its message or in its suggestion
NamesPattern(r) ==
    \E i \in 1..Len(r.message.args \o r.suggestion.args) :
        (r.message.args \o r.suggestion.args)[i] = "rules['pattern']"

C18_PatternMatchesWhole ==
    (Returned /\ Parsed /\ TargetDoc.shape = "dict") =>
        \A c \in Checked(schema, TargetDoc) :
            (/\ c.value.shape = "str"
             /\ "pattern" \in DOMAIN c.rules
             /\ ExpectedType(c.rules) \in {"string", "None"}) =>
                IF FullMatch(c.rules.pattern, c.value.s)
                THEN PatternErrors(c) = <<>>
                ELSE Len(PatternErrors(c)) = 1 /\ NamesPattern(PatternErrors(c)[1])

----------------------------------------------------------------------------
(* C19: an integer outside the minimum or maximum of its rule gets a       *)
(* diagnostic on its field, an integer inside them gets none.              *)

OutOfRange(c) ==
    \/ "minimum" \in DOMAIN c.rules /\ c.value.n < c.rules.minimum
    \/ "maximum" \in DOMAIN c.rules /\ c.value.n > c.rules.maximum

C19_RangeChecked ==
    (Returned /\ Parsed /\ TargetDoc.shape = "dict") =>
        \A c \in Checked(schema, TargetDoc) :
            (c.value.shape = "int" /\ DOMAIN c.rules \cap {"minimum", "maximum"} # {}) =>
                (OutOfRange(c) <=> Of(results, c.field) # <<>>)

----------------------------------------------------------------------------
(* C20: in a chain of three operators, each extending the next and the     *)
(* last the first, validating one of them gives no inheritance diagnostic  *)
(* and opens its own file and its parent's, no other.                      *)

\* operators/n/vars.yml is a mapping named n that extends an operator
Extending(n) ==
    /\ files[n].kind = "doc"
    /\ files[n].doc.shape = "dict"
    /\ GetOrNone(files[n].doc, "operator_name") = GoodName(n)
    /\ Has(files[n].doc, "extends")
    /\ \E parent \in Names : Get(files[n].doc, "extends") = GoodName(parent)

ParentOf(n) == Get(files[n].doc, "extends").s[1]

\* target extends a second operator, which extends a third, which extends
\* target
ChainOfThree ==
    /\ target \in Names
    /\ Extending(target)
    /\ Extending(ParentOf(target))
    /\ Extending(ParentOf(ParentOf(target)))
    /\ ParentOf(ParentOf(ParentOf(target))) = target
    /\ Cardinality({target, ParentOf(target), ParentOf(ParentOf(target))}) = 3

C20_LongChainUndetected ==
    /\ (Called /\ ChainOfThree) =>
          /\ Returned
          /\ Of(results, <<"extends">>) = <<>>
          /\ opened = <<target, ParentOf(target)>>
    /\ Called => Len(opened) <= 2

\* one operator of a chain of three validated
C20_Witness == Returned /\ ChainOfThree /\ Len(opened) = 2

----------------------------------------------------------------------------
(* C21: the inheritance check adds nothing when the document has no        *)
(* extends and at most one diagnostic otherwise, always on field extends:  *)
(* a missing parent, a circular dependency or an unreadable parent, never  *)
(* two of them.                                                            *)

InheritanceTexts ==
    {ParentNotFoundDiag.message.text, CircularDiag.message.text,
     ParentUnreadableDiag.message.text}

\* the diagnostics of the inheritance check: those it words, and those on
\* its field
InheritanceDiags ==
    SelectSeq(results, LAMBDA r : \/ r.message.text \in InheritanceTexts
                                   \/ r.field = <<"extends">>)

C21_OneInheritanceDiagnostic ==
    (Called /\ Parsed /\ TargetDoc.shape = "dict") =>
        /\ ~Has(TargetDoc, "extends") => InheritanceDiags = <<>>
        /\ Len(InheritanceDiags) <= 1
        /\ \A i \in 1..Len(InheritanceDiags) :
              /\ InheritanceDiags[i].field = <<"extends">>
              /\ InheritanceDiags[i].message.text \in InheritanceTexts

\* the three outcomes are distinct diagnostics, and one of them is reported
C21_Witness ==
    /\ Cardinality(InheritanceTexts) = 3
    /\ Returned /\ ExtendsDeclared
    /\ Len(InheritanceDiags) = 1
    /\ InheritanceDiags[1].message.text = ParentUnreadableDiag.message.text

----------------------------------------------------------------------------
(* C22: print_results prints the Errors, then the Warnings, then the Infos *)
(* if asked to, each group in the order of the list, with the suggestion   *)
(* of every diagnostic that has one, and leaves the list as it was.        *)

\* the diagnostics printed, in the order of their lines
Items(lines) ==
    LET items == SelectSeq(lines, LAMBDA l : l.line = "item")
    IN  [i \in 1..Len(items) |-> items[i].d]

Rank(level) == CASE level = ERROR -> 1 [] level = WARNING -> 2 [] level = INFO -> 3

OfLevel(diags, level) == SelectSeq(diags, LAMBDA r : r.level = level)

Displayed(lines, res) ==
    /\ \A i, j \in 1..Len(Items(lines)) :
          i < j => Rank(Items(lines)[i].level) <= Rank(Items(lines)[j].level)
    /\ OfLevel(Items(lines), ERROR) = OfLevel(res, ERROR)
    /\ OfLevel(Items(lines), WARNING) = OfLevel(res, WARNING)
    /\ OfLevel(Items(lines), INFO) \in {<<>>, OfLevel(res, INFO)}
    /\ \A k \in 1..Len(lines) :
          /\ (lines[k].line = "item" /\ lines[k].d.suggestion # NoSuggestion) =>
                /\ k < Len(lines)
                /\ lines[k + 1].line = "suggestion"
                /\ lines[k + 1].d = lines[k].d
          /\ lines[k].line = "suggestion" =>
                /\ k > 1
                /\ lines[k - 1].line = "item"
                /\ lines[k - 1].d = lines[k].d

----------------------------------------------------------------------------
(* C23: the keys of a mapping tmux_config.settings that have a rule are    *)
(* validated as fields tmux_config.settings.<key>, the others give         *)
(* nothing, and nothing deeper is looked at.                               *)

\* the call returned and tmux_config.settings is a mapping
SettingsMapped ==
    /\ Returned /\ Parsed /\ TargetDoc.shape = "dict"
    /\ Has(TargetDoc, "tmux_config")
    /\ Get(TargetDoc, "tmux_config").shape = "dict"
    /\ Has(Get(TargetDoc, "tmux_config"), "settings")
    /\ Get(Get(TargetDoc, "tmux_config"), "settings").shape = "dict"

Settings == Get(Get(TargetDoc, "tmux_config"), "settings")

SettingsRules == schema.tmux_config.field_types["settings"].properties

C23_SettingsOneLevel ==
    SettingsMapped =>
        /\ \A i \in 1..Len(Settings.pairs) :
              Of(results, <<"tmux_config", "settings", Settings.pairs[i][1]>>) =
                  IF Settings.pairs[i][1] \in DOMAIN SettingsRules
                  THEN ValidateField(<<"tmux_config", "settings", Settings.pairs[i][1]>>,
                                     Settings.pairs[i][2],
                                     SettingsRules[Settings.pairs[i][1]])
                  ELSE <<>>
        /\ \A i \in 1..Len(results) :
              /\ Len(results[i].field) <= 3
              /\ results[i].field # <<"tmux_config", "settings">>
              /\ Len(results[i].field) = 2 /\ results[i].field[1] = "tmux_config" =>
                    Has(Get(TargetDoc, "tmux_config"), results[i].field[2])

\* a setting with a rule reported, next to none for a setting without rule
C23_Witness ==
    /\ SettingsMapped
    /\ \E i \in 1..Len(Settings.pairs) :
          /\ Settings.pairs[i][1] \in DOMAIN SettingsRules
          /\ Of(results, <<"tmux_config", "settings", Settings.pairs[i][1]>>) # <<>>

----------------------------------------------------------------------------
(* C24: a value of the right type that is not in the enum of its rule gets *)
(* one Error on its field, which lists the allowed values; a value in the  *)
(* enum gets no enum Error.                                                *)

EnumErrors(c) ==
    SelectSeq(OfLevel(Of(results, c.field), ERROR), LAMBDA r : r.message.text \in EnumTexts)

ListsAllowed(r) ==
    \E i \in 1..Len(r.message.args) : r.message.args[i] = "rules['enum']"

\* the fields of the document with an enum and a value of the rule's type
EnumChecked ==
    {c \in Checked(schema, TargetDoc) : "enum" \in DOMAIN c.rules /\ ~WrongShape(c)}

\* C24 as stated: the enum Error is the one Error of the field
C24_OneErrorOutsideEnum ==
    (Returned /\ Parsed /\ TargetDoc.shape = "dict") =>
        \A c \in EnumChecked :
            IF EnumOk(c) THEN EnumErrors(c) = <<>>
            ELSE /\ Len(OfLevel(Of(results, c.field), ERROR)) = 1
                 /\ Len(EnumErrors(c)) = 1
                 /\ ListsAllowed(EnumErrors(c)[1])

\* C24 amended: one enum Error, the one Error of the field unless the rule
\* has a pattern too, whose Error comes with it
C24_OneEnumError ==
    (Returned /\ Parsed /\ TargetDoc.shape = "dict") =>
        \A c \in EnumChecked :
            IF EnumOk(c) THEN EnumErrors(c) = <<>>
            ELSE /\ Len(EnumErrors(c)) = 1
                 /\ ListsAllowed(EnumErrors(c)[1])
                 /\ Len(OfLevel(Of(results, c.field), ERROR)) =
                        IF "pattern" \in DOMAIN c.rules /\ ~PatternOk(c) THEN 2 ELSE 1

\* shell_config.preferred_shell outside its enum, reported
C24_Witness ==
    /\ Returned /\ Parsed /\ TargetDoc.shape = "dict"
    /\ \E c \in EnumChecked :
          /\ c.field = <<"shell_config", "preferred_shell">>
          /\ ~EnumOk(c)
          /\ Len(EnumErrors(c)) = 1

----------------------------------------------------------------------------
(* C25: a string longer than max_length, or a list longer than max_items,  *)
(* gets a Warning that reports the length of the value; a value as long as *)
(* the limit gets no size diagnostic.                                      *)

LimitTexts == {MaxLengthDiag(<<>>).message.text, MaxItemsDiag(<<>>).message.text}

LimitDiags(c) == SelectSeq(Of(results, c.field), LAMBDA r : r.message.text \in LimitTexts)

\* the limit of the rule that applies to the value, if any
Limited(c) ==
    \/ c.value.shape = "str" /\ "max_length" \in DOMAIN c.rules
    \/ c.value.shape = "list" /\ "max_items" \in DOMAIN c.rules

LimitOf(c) == IF c.value.shape = "str" THEN c.rules.max_length ELSE c.rules.max_items

C25_SizeWarningReportsCount ==
    (Returned /\ Parsed /\ TargetDoc.shape = "dict") =>
        \A c \in Checked(schema, TargetDoc) :
            (Limited(c) /\ ~WrongShape(c)) =>
                IF PyLen(c.value) > LimitOf(c)
                THEN /\ Len(LimitDiags(c)) = 1
                     /\ LimitDiags(c)[1].level = WARNING
                     /\ MentionsCount(LimitDiags(c)[1])
                ELSE LimitDiags(c) = <<>>

----------------------------------------------------------------------------
(* C26: the returned list has the metadata diagnostics first, the missing  *)
(* required fields before the field checks, then those of shell_config,    *)
(* tmux_config, tools_config and docker_config, and the inheritance        *)
(* diagnostic last, whatever the order of the keys of the document.        *)

Stage(r) ==
    IF r.message.text = MissingDiag("").message.text THEN 1
    ELSE IF r.field = <<"extends">> THEN 7
    ELSE IF r.field[1] = "shell_config" THEN 3
    ELSE IF r.field[1] = "tmux_config" THEN 4
    ELSE IF r.field[1] = "tools_config" THEN 5
    ELSE IF r.field[1] = "docker_config" THEN 6
    ELSE 2

C26_FixedOrder ==
    (Returned /\ Parsed /\ TargetDoc.shape = "dict") =>
        \A i, j \in 1..Len(results) : i < j => Stage(results[i]) <= Stage(results[j])

\* the keys of the document in another order than the diagnostics, which
\* come from every stage
C26_Witness ==
    /\ Returned /\ Parsed /\ TargetDoc.shape = "dict"
    /\ Len(TargetDoc.pairs) = Len(DisorderedPairs)
    /\ TargetDoc.pairs[1][1] = "extends"
    /\ TargetDoc.pairs[2][1] = "docker_config"
    /\ {Stage(results[i]) : i \in 1..Len(results)} = 1..7

----------------------------------------------------------------------------
(* C27: a circular dependency is reported only if the parent declares an   *)
(* extends, one that names the child.                                      *)

CircularReported ==
    \E i \in 1..Len(results) : results[i].message.text = CircularDiag.message.text

C27_CircularNeedsParentExtends ==
    (Returned /\ ExtendsDeclared /\ CircularReported) =>
        /\ ParentFile.kind = "doc"
        /\ Has(ParentFile.doc, "extends")
        /\ Has(TargetDoc, "operator_name")
        /\ PyEq(Get(ParentFile.doc, "extends"), Get(TargetDoc, "operator_name"))

----------------------------------------------------------------------------
(* C28: an operator created by create_operator or by the command line of   *)
(* create_operator.py, with a valid new name, one of the three templates,  *)
(* no parent or an existing one, and description, author and tags given or *)
(* omitted, validates with no missing-field Error, no type Error and no    *)
(* missing-parent Error.                                                   *)

\* create_operator wrote the operator and validate_operator returned for it
CreatedAndValidated ==
    /\ generated.exc = NoExc
    /\ FullMatch(schema.operator_metadata.field_types.operator_name.pattern, generated.name)
    /\ Returned
    /\ <<target>> = generated.name
    /\ files[target] = Doc(generated.config)

GeneratedErrors ==
    SelectSeq(results, LAMBDA r :
        \/ r.message.text = "Required field is missing"
        \/ r.message.text \in TypeTexts
        \/ r.message.text = "Parent operator not found at")

C28_GeneratedOperatorValidates == CreatedAndValidated => GeneratedErrors = <<>>

\* the same for the creations that hand a description to create_operator
\* or leave the keyword out
C28_DescribedOperatorValidates ==
    (CreatedAndValidated /\ Get(generated.config, "operator_description") # Null)
        => GeneratedErrors = <<>>

\* an operator with a parent, created without a description keyword
C28_Witness ==
    /\ CreatedAndValidated
    /\ Has(generated.config, "extends")
    /\ Get(generated.config, "operator_description") = DefaultDescription(Str(generated.name))

----------------------------------------------------------------------------
(* C29: a call of create_operator whose name does not match the name       *)
(* pattern of the schema, or names an existing operator, or whose parent   *)
(* is no existing operator, or whose template is unknown, raises           *)
(* ValueError and leaves every file and directory as it was; no vars.yml   *)
(* that exists is overwritten.                                             *)

\* this step is a call of create_operator
CreateStep == generated.exc = "idle" /\ generated'.exc # "idle"

SchemaNamePattern == schema.operator_metadata.field_types.operator_name.pattern

\* the conditions on the arguments other than the name's
OtherRefusal ==
    \/ Exists(FileAt(files, generated'.name))
    \/ /\ generated'.parent \notin {Null, Str(<<>>)}
       /\ \/ generated'.parent.s \notin dirs
          \/ ~Exists(FileAt(files, generated'.parent.s))
    \/ generated'.template \notin TemplateNames

Refused ==
    /\ generated'.exc = "ValueError"
    /\ files' = files
    /\ dirs' = dirs
    /\ readmes' = readmes

C29_InvalidCreationRefused ==
    [][(CreateStep /\ (~FullMatch(SchemaNamePattern, generated'.name) \/ OtherRefusal))
          => Refused]_vars

\* the same with the name tested as re.match tests it, and the files that
\* exist kept by every call
C29_UnmatchedCreationRefused ==
    [][CreateStep =>
          /\ (~ReMatch(SchemaNamePattern, generated'.name) \/ OtherRefusal) => Refused
          /\ \A n \in Names : Exists(files[n]) => files'[n] = files[n]]_vars

----------------------------------------------------------------------------
(* C30: after any sequence of task starts and runner results, several      *)
(* hosts reporting for a task included, the completed count of every role  *)
(* is at most the number of tasks started for that role, and no line of    *)
(* the role breakdown shows completed > total.                             *)

C30_CompletedWithinTotal ==
    /\ \A role \in Roles : roles.completed[role] <= roles.tasks[role]
    /\ \A i \in 1..Len(breakdown) : breakdown[i].completed <= breakdown[i].total

\* the same for a play of one host whose tasks all belong to a role
C30_OneHostRoleTasksWithinTotal ==
    (Cardinality(play.hosts) = 1 /\ stats.total = roles.tasks["common"] + roles.tasks["shell"])
        => C30_CompletedWithinTotal

====
